---- MODULE Spec2Model ----
(***************************************************************************)
(* AuraFitGym front-end: the payment forms (member self-service and admin), *)
(* the receipt flow and the membership-creation form, as a state machine.  *)
(* One page is mounted at a time (variable view); every handler of the     *)
(* mounted page is one action, an awaited request is a message in flight   *)
(* and the code after the await is the action that consumes its response.  *)
(***************************************************************************)
EXTENDS Integers, Sequences, FiniteSets, TLC

(* ------------------------------ bounds --------------------------------- *)
\* longest text typed into a number input
MaxTextLen == 2
\* member ids offered by the member <select>; 0 is "Select a member..."
MaxMemberId == 1
\* payments on the server, and listed by the page, when it is mounted
MaxSeedPayments == 2
\* payments created during one session
MaxCreated == 1
\* receipt requests in flight at once
MaxReceiptReqs == 2

\* longest payment list a page is given
MaxListLen == 2

(* --------------------------- JavaScript numbers ------------------------ *)
\* A JS number: NaN, or an integer value.
NaN == [nan |-> TRUE, v |-> 0]
Num(n) == [nan |-> FALSE, v |-> n]

\* JS "a <= b": false whenever an operand is NaN.
JsLeq(a, b) == ~a.nan /\ ~b.nan /\ a.v <= b.v

\* JS truthiness of a number: 0 and NaN are falsy.
JsTruthy(a) == ~a.nan /\ a.v # 0

\* The decimal digits, and the keys of the model's keyboard.
DigitChars == <<"0", "1", "2", "3", "4", "5", "6", "7", "8", "9">>
Digits == {DigitChars[i] : i \in DOMAIN DigitChars}
DigitValue(c) == (CHOOSE i \in DOMAIN DigitChars : DigitChars[i] = c) - 1
Keys == {"-", "5"}

\* Every text of at most MaxTextLen keys.
Texts == UNION {[1..n -> Keys] : n \in 0..MaxTextLen}

RECURSIVE DigitsValue(_)
DigitsValue(s) ==
  IF s = <<>> THEN 0
  ELSE 10 * DigitsValue(SubSeq(s, 1, Len(s) - 1)) + DigitValue(s[Len(s)])

RECURSIVE DigitPrefix(_)
DigitPrefix(s) ==
  IF s = <<>> \/ s[1] \notin Digits THEN <<>>
  ELSE <<s[1]>> \o DigitPrefix(Tail(s))

\* parseFloat / parseInt on a text without "." or exponent: optional sign,
\* then the longest run of digits; NaN when there is no digit.
parseFloat(s) ==
  LET neg  == s # <<>> /\ s[1] = "-"
      body == IF neg THEN Tail(s) ELSE s
      digs == DigitPrefix(body)
  IN IF digs = <<>> THEN NaN
     ELSE Num((IF neg THEN -1 ELSE 1) * DigitsValue(digs))

\* String(n) of a non-negative integer.
RECURSIVE ToText(_)
ToText(n) ==
  IF n < 10 THEN <<DigitChars[n + 1]>>
  ELSE ToText(n \div 10) \o <<DigitChars[(n % 10) + 1]>>

\* <input type="number">: e.target.value is the typed text when it is a valid
\* number and the empty string otherwise.
NumberInputValue(text) ==
  LET neg  == text # <<>> /\ text[1] = "-"
      body == IF neg THEN Tail(text) ELSE text
  IN IF body # <<>> /\ DigitPrefix(body) = body THEN text ELSE <<>>

\* Constraint validation of a number input whose value shows the state n
\* (NaN renders as the empty value).
ValueMissing(n) == n.nan
RangeUnderflow(n, min) == ~n.nan /\ n.v < min

(* ------------------------------ catalogs ------------------------------- *)
membershipPlans ==
  << [name |-> "Monthly",     duration |-> 30,  price |-> 50000],
     [name |-> "Quarterly",   duration |-> 90,  price |-> 135000],
     [name |-> "Semi-Annual", duration |-> 180, price |-> 255000],
     [name |-> "Annual",      duration |-> 365, price |-> 480000] >>

paymentMethods ==
  {"Credit Card", "Debit Card", "Bank Transfer", "KBZ Pay", "Wave Money", "Cash"}

\* the payment-method buttons the admin clicks in the explored runs
ClickedMethods == {m \in paymentMethods : m \in {"Credit Card", "Cash"}}

\* the message of a rejected request; "" is a response without a message
BackendMessages == {"", "Server error"}

MemberIds == 1..MaxMemberId
\* the <option> values of the member select
MemberOptions == {0} \cup MemberIds

\* the admin-side catalog of the membership form
membershipTypes ==
  << [label |-> "Monthly",                duration |-> 30,  fee |-> 50000],
     [label |-> "Quarterly (3 months)",   duration |-> 90,  fee |-> 140000],
     [label |-> "Semi-Annual (6 months)", duration |-> 180, fee |-> 275000],
     [label |-> "Annual",                 duration |-> 365, fee |-> 550000] >>

\* what the admin types into the "Type Name" input
TypeTexts == {"", "VIP"}

Views == {"MemberPayment", "PaymentsManagement", "MembershipsManagement"}

\* a payment already on the server at mount
SeedPayment(i) ==
  [id |-> i, member_id |-> 1, amount |-> Num(50000), method |-> "Cash"]
SeedPayments(n) == [i \in 1..n |-> SeedPayment(i)]

VARIABLES
  view,              \* the mounted page
  userMemberId,      \* user?.member?.id; 0 when the user has no linked member
  formData,          \* the payment form of the mounted page
  showPaymentModal,  \* MemberPayment
  showCreateModal,   \* PaymentsManagement
  showReceiptModal,
  selectedReceipt,   \* payment id of the stored receipt, 0 for null
  isProcessing,      \* MemberPayment: useMutation(paymentsApi.create).isLoading
  isCreating,        \* PaymentsManagement: useMutation(paymentsApi.create).isLoading
  createReqs,        \* create-payment requests in flight
  receiptReqs,       \* generate-receipt requests in flight, in issue order
  paymentsFetches,   \* payment-list refetches in flight
  statusFetches,     \* membership-status refetches in flight
  payments,          \* the payment list the page holds
  srvPayments,       \* the payments the backend holds
  created,           \* payments created in this session
  toast,             \* the notification shown by the last step, if any
  createFormData,    \* MembershipsManagement: the create-membership form
  membershipReqs,    \* create-membership requests in flight
  membershipsFetches, \* membership-list refetches in flight
  lastWritten,       \* history: the value last written to each form field
  paymentsLoaded,    \* useApi: FALSE while the list's data is still undefined
  statusFilter,      \* PaymentsManagement: the status filter of the list
  now,               \* the calendar month of new Date()
  isLoading,         \* AdminDashboard, Register, Login: useState isLoading
  loadReqs,          \* AdminDashboard: loadData requests in flight
  srvMemberships,    \* the memberships the backend holds
  membershipStatus,  \* MemberPayment: useApi(getStatus).data, Null until loaded
  serverDate,        \* the backend's current date
  issued,            \* history: the API functions called so far
  registerData,      \* Register: formData
  loginData,         \* Login: email and password
  authReqs,          \* register / login requests in flight
  storage,           \* localStorage
  location,          \* the route shown
  navigations,       \* history: navigate() calls, with the storage they found
  memberships,       \* MembershipsManagement: useApi(getAll).data
  showEditModal,
  showDeleteModal,
  selectedMembership, \* the membership of the row clicked last, or Null
  editFormData,      \* MembershipsManagement: the edit form
  isUpdating,        \* useMutation(membershipsApi.update).isLoading
  isDeleting,        \* useMutation(membershipsApi.delete).isLoading
  updateReqs,        \* update-membership requests in flight
  deleteReqs,        \* delete-membership requests in flight
  lastEditOpened,    \* history: id of the membership whose edit modal was
                     \* opened last, 0 before the first
  receiptLog,        \* history: the payment whose receipt was requested last
                     \* (0: none yet), and whether a receipt request failed
  members,           \* AdminDashboard: useState members
  attendance,        \* AdminDashboard: useState attendance
  loadAnswers,       \* AdminDashboard: the answer of each fetch of loadData
  other,             \* MembershipsManagement open in a second session
  otherReqs          \* the update requests of the second session

vars == << view, userMemberId, formData, showPaymentModal, showCreateModal,
           showReceiptModal, selectedReceipt, isProcessing, isCreating,
           createReqs, receiptReqs, paymentsFetches, statusFetches, payments,
           srvPayments, created, toast, createFormData, membershipReqs,
           membershipsFetches, lastWritten, paymentsLoaded, statusFilter,
           now, isLoading, loadReqs, srvMemberships, membershipStatus,
           serverDate, issued, registerData, loginData, authReqs, storage,
           location, navigations, memberships, showEditModal,
           showDeleteModal, selectedMembership, editFormData, isUpdating,
           isDeleting, updateReqs, deleteReqs, lastEditOpened, receiptLog,
           members, attendance, loadAnswers, other, otherReqs >>

(* ------------------------------ helpers -------------------------------- *)
RemoveAt(s, i) == SubSeq(s, 1, i - 1) \o SubSeq(s, i + 1, Len(s))

showError(msg) == toast' = <<[kind |-> "error", text |-> msg]>>
showSuccess(msg) == toast' = <<[kind |-> "success", text |-> msg]>>

\* useMutation (hooks/useApi): isLoading is raised when mutate is called and
\* lowered when the request settles, whether it resolved or rejected
isLoadingOnMutate == TRUE
isLoadingOnSettle == FALSE

\* the API functions the pages bind to their mutations
makePayment == "paymentsApi.create"
createPayment_update == "paymentsApi.update"
createPayment == "paymentsApi.create"
createMembership == "membershipsApi.create"

\* a handler calls API functions
Calls(apis) == issued' = issued \cup apis

\* error.response?.data?.message || fallback
MessageOr(msg, fallback) == IF msg # "" THEN msg ELSE fallback

\* the backend stores an accepted create request
srvCreate(payload) ==
  srvPayments' = Append(srvPayments,
     [id |-> Len(srvPayments) + 1, member_id |-> payload.member_id,
      amount |-> payload.amount, method |-> payload.method])

\* a request in flight: its payload, and the backend's answer once given
\* (resp is "none" until the backend answers, then "ok" or "err")
Request(payload) == [payload |-> payload, resp |-> "none", message |-> ""]
Answered(req, resp, msg) == [req EXCEPT !.resp = resp, !.message = msg]
Pending(reqs) == {i \in DOMAIN reqs : reqs[i].resp = "none"}

CreateBudget ==
  created + Cardinality(Pending(createReqs))
          + Cardinality(Pending(membershipReqs)) < MaxCreated

(* ------------------------------- Init ---------------------------------- *)
MP_initialFormData == [amount |-> Num(0), method |-> "Credit Card"]
PM_initialFormData == [member_id |-> 0, amount |-> Num(0), method |-> "Credit Card"]
MM_initialFormData ==
  [member_id |-> 0, type |-> "", duration |-> Num(30), fee |-> Num(0)]

\* null / undefined
Null == [null |-> TRUE]

\* Membership Status Resolver (backend): among the member's memberships, one
\* whose status is "active"; without one, false and null. The set of the
\* responses it can give.
resolveStatus_anyStatus(memberId, list) ==
  LET own == {i \in DOMAIN list : list[i].member_id = memberId}
  IN IF own = {}
     THEN {[has_active_membership |-> FALSE, active_membership |-> Null]}
     ELSE {[has_active_membership |-> TRUE, active_membership |-> list[i]] :
             i \in own}

resolveStatus(memberId, list) ==
  LET act == {i \in DOMAIN list :
                list[i].member_id = memberId /\ list[i].status = "active"}
  IN IF act = {}
     THEN {[has_active_membership |-> FALSE, active_membership |-> Null]}
     ELSE {[has_active_membership |-> TRUE, active_membership |-> list[i]] :
             i \in act}

(* calendar dates: [year, month, day] *)
Date(y, m, d) == [year |-> y, month |-> m, day |-> d]
IsLeap(y) == (y % 4 = 0 /\ y % 100 # 0) \/ y % 400 = 0
DaysInMonth_noLeap(y, m) ==
  IF m = 2 THEN 28 ELSE IF m \in {4, 6, 9, 11} THEN 30 ELSE 31

DaysInMonth(y, m) ==
  IF m = 2 THEN (IF IsLeap(y) THEN 29 ELSE 28)
  ELSE IF m \in {4, 6, 9, 11} THEN 30 ELSE 31

\* start_date + n days, n >= 0
RECURSIVE AddDays(_, _)
AddDays(date, n) ==
  LET left == DaysInMonth(date.year, date.month) - date.day
  IN IF n <= left THEN [date EXCEPT !.day = @ + n]
     ELSE AddDays(IF date.month = 12 THEN Date(date.year + 1, 1, 1)
                  ELSE Date(date.year, date.month + 1, 1),
                  n - left - 1)

\* start_date + 1 calendar year
AddYear(date) == [date EXCEPT !.year = @ + 1]

membershipOf_calendarYear(payload, id, start) ==
  [id |-> id, member_id |-> payload.member_id, type |-> payload.type,
   duration |-> payload.duration.v, fee |-> payload.fee.v,
   start_date |-> start,
   end_date |-> IF payload.duration.v = 365 THEN AddYear(start)
                ELSE AddDays(start, payload.duration.v),
   status |-> "active"]

\* the membership the backend stores for an accepted create request:
\* it starts today and ends duration days later
membershipOf(payload, id, start) ==
  [id |-> id, member_id |-> payload.member_id, type |-> payload.type,
   duration |-> payload.duration.v, fee |-> payload.fee.v,
   start_date |-> start, end_date |-> AddDays(start, payload.duration.v),
   status |-> "active"]

\* the memberships page and the status banner: no membership on the backend
LedgerIdle ==
  /\ serverDate = Date(2024, 1, 1)
  /\ srvMemberships = <<>>
  /\ memberships = <<>>
  /\ membershipStatus \in resolveStatus(userMemberId, srvMemberships)

\* localStorage as a function from the keys that are set
NoStorage == [k \in {} |-> ""]
setItem(store, key, value) ==
  [k \in DOMAIN store \cup {key} |-> IF k = key THEN value ELSE store[k]]

\* Register.formData and Login's fields as constructed
RG_initialFormData ==
  [username |-> "", email |-> "", password |-> "", role |-> "member"]
LG_initialData == [email |-> "", password |-> ""]

\* no register / login page is mounted
AuthIdle ==
  /\ registerData = RG_initialFormData
  /\ loginData = LG_initialData
  /\ authReqs = <<>>
  /\ storage = NoStorage
  /\ location = "/"
  /\ navigations = <<>>

\* the pages of the statistics: nothing loaded, default filter
LoadApis ==
  {"membersApi.getAll", "attendanceApi.getAll", "paymentsApi.getAll",
   "membershipsApi.getAll"}
NoAnswers == [a \in LoadApis |-> "none"]

StatsIdle ==
  /\ members = <<>>
  /\ attendance = <<>>
  /\ loadAnswers = NoAnswers
  /\ paymentsLoaded = TRUE
  /\ statusFilter = "all"
  /\ now = [year |-> 2024, month |-> 1]
  /\ isLoading = FALSE
  /\ loadReqs = 0

\* the forms of the mounted page as their components construct them
MM_initialEditFormData == [status |-> "active"]

\* the edit and delete modals of MembershipsManagement as constructed
\* the memberships page of a second session: its list, its selection, its
\* edit form, the fields of the form changed since the modal was opened
\* (history), and its refetches in flight; not mounted unless stated
OtherIdle ==
  [mounted |-> FALSE, memberships |-> <<>>, selectedMembership |-> Null,
   editFormData |-> MM_initialEditFormData, showEditModal |-> FALSE,
   isUpdating |-> FALSE, changed |-> {}, fetches |-> 0]

EditIdle ==
  /\ otherReqs = <<>>
  /\ showEditModal = FALSE
  /\ showDeleteModal = FALSE
  /\ selectedMembership = Null
  /\ editFormData = MM_initialEditFormData
  /\ isUpdating = FALSE
  /\ isDeleting = FALSE
  /\ updateReqs = <<>>
  /\ deleteReqs = <<>>
  /\ lastEditOpened = 0

FormsIdleBeside(otherPage) ==
  /\ other = otherPage
  /\ EditIdle
  /\ receiptLog = [last |-> 0, failed |-> FALSE]
  /\ formData = IF view = "PaymentsManagement" THEN PM_initialFormData
                ELSE MP_initialFormData
  /\ createFormData = MM_initialFormData
  /\ lastWritten = IF view = "MembershipsManagement" THEN createFormData
                   ELSE formData
  /\ membershipReqs = <<>>
  /\ membershipsFetches = 0
  /\ showPaymentModal = FALSE
  /\ showCreateModal = FALSE
  /\ showReceiptModal = FALSE
  /\ selectedReceipt = 0
  /\ isProcessing = FALSE
  /\ isCreating = FALSE
  /\ createReqs = <<>>
  /\ receiptReqs = <<>>
  /\ statusFetches = 0
  /\ created = 0
  /\ toast = <<>>

FormsIdle == FormsIdleBeside(OtherIdle)

Init ==
  /\ StatsIdle
  /\ AuthIdle
  /\ view \in Views
  /\ userMemberId \in IF view = "MemberPayment" THEN 0..MaxMemberId ELSE {0}
  /\ FormsIdle
  /\ paymentsFetches = 0
  /\ srvPayments = IF view = "MembershipsManagement" THEN <<>>
                   ELSE SeedPayments(MaxSeedPayments)
  /\ payments = srvPayments
  /\ LedgerIdle
  /\ issued = {}

(* ======================= MemberPayment (self-service) ================== *)
\* mutant: the guard written "amount < 0"
MP_submitDisabled_strict(processing, fd) ==
  processing \/ (~fd.amount.nan /\ fd.amount.v < 0)

\* disabled={isProcessing || formData.amount <= 0}
MP_submitDisabled(processing, fd) == processing \/ JsLeq(fd.amount, Num(0))

\* mutant: the member guard dropped
MP_memberMissing_never(uid) == FALSE

\* !user?.member?.id : no user, no member, or a falsy id
MP_memberMissing(uid) == uid = 0

\* the amount input: type="number" min="0" step="1", not required
MP_formValid(fd) == ~RangeUnderflow(fd.amount, 0)

MP_payload_withMembership(memberId, fd) ==
  [member_id |-> memberId, amount |-> fd.amount, method |-> fd.method,
   membership_id |-> 1]

\* { member_id: user.member.id, ...formData }
MP_payload(memberId, fd) ==
  [member_id |-> memberId, amount |-> fd.amount, method |-> fd.method]

MP_selectPlanData_noSpread(fd, plan) ==
  [amount |-> Num(plan.price), method |-> "Cash"]

\* setFormData({ ...formData, amount: plan.price })
MP_selectPlanData(fd, plan) == [fd EXCEPT !.amount = Num(plan.price)]

\* setFormData({ ...formData, amount: parseFloat(e.target.value) })
MP_amountChangeData(fd, text) ==
  [fd EXCEPT !.amount = parseFloat(NumberInputValue(text))]

MP_OpenPaymentModal ==
  /\ view = "MemberPayment"
  /\ ~showPaymentModal
  /\ showPaymentModal' = TRUE
  /\ toast' = <<>>
  /\ UNCHANGED << view, userMemberId, formData, showCreateModal,
                  showReceiptModal, selectedReceipt, isProcessing,
                  isCreating, createReqs, receiptReqs, paymentsFetches,
                  statusFetches, payments, srvPayments, created,
                  createFormData, membershipReqs, membershipsFetches,
                  lastWritten, paymentsLoaded, statusFilter, now, isLoading,
                  loadReqs, srvMemberships, membershipStatus, serverDate,
                  issued, registerData, loginData, authReqs, storage,
                  location, navigations, memberships, showEditModal,
                  showDeleteModal, selectedMembership, editFormData,
                  isUpdating, isDeleting, updateReqs, deleteReqs,
                  lastEditOpened, receiptLog, members, attendance,
                  loadAnswers, other, otherReqs >>

\* the Cancel button and the modal's onClose
MP_ClosePaymentModal ==
  /\ view = "MemberPayment"
  /\ showPaymentModal
  /\ showPaymentModal' = FALSE
  /\ toast' = <<>>
  /\ UNCHANGED << view, userMemberId, formData, showCreateModal,
                  showReceiptModal, selectedReceipt, isProcessing,
                  isCreating, createReqs, receiptReqs, paymentsFetches,
                  statusFetches, payments, srvPayments, created,
                  createFormData, membershipReqs, membershipsFetches,
                  lastWritten, paymentsLoaded, statusFilter, now, isLoading,
                  loadReqs, srvMemberships, membershipStatus, serverDate,
                  issued, registerData, loginData, authReqs, storage,
                  location, navigations, memberships, showEditModal,
                  showDeleteModal, selectedMembership, editFormData,
                  isUpdating, isDeleting, updateReqs, deleteReqs,
                  lastEditOpened, receiptLog, members, attendance,
                  loadAnswers, other, otherReqs >>

MP_selectPlanOf(i) ==
  /\ view = "MemberPayment"
  /\ showPaymentModal
  /\ formData' = MP_selectPlanData(formData, membershipPlans[i])
  /\ lastWritten' = [lastWritten EXCEPT !.amount = Num(membershipPlans[i].price)]
  /\ toast' = <<>>
  /\ UNCHANGED << view, userMemberId, showPaymentModal, showCreateModal,
                  showReceiptModal, selectedReceipt, isProcessing,
                  isCreating, createReqs, receiptReqs, paymentsFetches,
                  statusFetches, payments, srvPayments, created,
                  createFormData, membershipReqs, membershipsFetches,
                  paymentsLoaded, statusFilter, now, isLoading, loadReqs,
                  srvMemberships, membershipStatus, serverDate, issued,
                  registerData, loginData, authReqs, storage, location,
                  navigations, memberships, showEditModal, showDeleteModal,
                  selectedMembership, editFormData, isUpdating, isDeleting,
                  updateReqs, deleteReqs, lastEditOpened, receiptLog,
                  members, attendance, loadAnswers, other, otherReqs >>

MP_selectPlan == \E i \in DOMAIN membershipPlans : MP_selectPlanOf(i)

MP_amountChange ==
  /\ view = "MemberPayment"
  /\ showPaymentModal
  /\ \E text \in Texts :
        /\ formData' = MP_amountChangeData(formData, text)
        /\ lastWritten' =
             [lastWritten EXCEPT !.amount = parseFloat(NumberInputValue(text))]
  /\ toast' = <<>>
  /\ UNCHANGED << view, userMemberId, showPaymentModal, showCreateModal,
                  showReceiptModal, selectedReceipt, isProcessing,
                  isCreating, createReqs, receiptReqs, paymentsFetches,
                  statusFetches, payments, srvPayments, created,
                  createFormData, membershipReqs, membershipsFetches,
                  paymentsLoaded, statusFilter, now, isLoading, loadReqs,
                  srvMemberships, membershipStatus, serverDate, issued,
                  registerData, loginData, authReqs, storage, location,
                  navigations, memberships, showEditModal, showDeleteModal,
                  selectedMembership, editFormData, isUpdating, isDeleting,
                  updateReqs, deleteReqs, lastEditOpened, receiptLog,
                  members, attendance, loadAnswers, other, otherReqs >>

\* handleSubmit up to its await: the guard on the member, then the request
MP_handleSubmit ==
  /\ view = "MemberPayment"
  /\ showPaymentModal
  /\ ~MP_submitDisabled(isProcessing, formData)
  /\ MP_formValid(formData)
  /\ IF MP_memberMissing(userMemberId)
       THEN /\ showError("Member information not found")
            /\ UNCHANGED << createReqs, isProcessing, issued >>
       ELSE /\ CreateBudget
            /\ Calls({makePayment})
            /\ createReqs' = Append(createReqs,
                                    Request(MP_payload(userMemberId, formData)))
            /\ isProcessing' = isLoadingOnMutate
            /\ toast' = <<>>
  /\ UNCHANGED << view, userMemberId, formData, showPaymentModal,
                  showCreateModal, showReceiptModal, selectedReceipt,
                  isCreating, receiptReqs, paymentsFetches, statusFetches,
                  payments, srvPayments, created, createFormData,
                  membershipReqs, membershipsFetches, lastWritten,
                  paymentsLoaded, statusFilter, now, isLoading, loadReqs,
                  srvMemberships, membershipStatus, serverDate, registerData,
                  loginData, authReqs, storage, location, navigations,
                  memberships, showEditModal, showDeleteModal,
                  selectedMembership, editFormData, isUpdating, isDeleting,
                  updateReqs, deleteReqs, lastEditOpened, receiptLog,
                  members, attendance, loadAnswers, other, otherReqs >>

\* mutant: the success path without refetchStatus()
MP_handleSubmitResolved_noStatus ==
  /\ view = "MemberPayment"
  /\ \E i \in DOMAIN createReqs :
        /\ createReqs[i].resp = "ok"
        /\ createReqs' = RemoveAt(createReqs, i)
  /\ isProcessing' = isLoadingOnSettle
  /\ showSuccess("Payment successful!")
  /\ showPaymentModal' = FALSE
  /\ formData' = [amount |-> Num(0), method |-> "Credit Card"]
  /\ lastWritten' = [amount |-> Num(0), method |-> "Credit Card"]
  /\ paymentsFetches' = paymentsFetches + 1
  /\ Calls({"paymentsApi.myPayments"})
  /\ UNCHANGED << view, userMemberId, showCreateModal, showReceiptModal,
                  selectedReceipt, isCreating, receiptReqs, statusFetches,
                  payments, srvPayments, created, createFormData,
                  membershipReqs, membershipsFetches, paymentsLoaded,
                  statusFilter, now, isLoading, loadReqs, srvMemberships,
                  membershipStatus, serverDate, registerData, loginData,
                  authReqs, storage, location, navigations, memberships,
                  showEditModal, showDeleteModal, selectedMembership,
                  editFormData, isUpdating, isDeleting, updateReqs,
                  deleteReqs, lastEditOpened, receiptLog, members,
                  attendance, loadAnswers, other, otherReqs >>

\* the request succeeded: the rest of the try block
MP_handleSubmitResolved ==
  /\ view = "MemberPayment"
  /\ \E i \in DOMAIN createReqs :
        /\ createReqs[i].resp = "ok"
        /\ createReqs' = RemoveAt(createReqs, i)
  /\ isProcessing' = isLoadingOnSettle
  /\ showSuccess("Payment successful!")
  /\ showPaymentModal' = FALSE
  /\ formData' = [amount |-> Num(0), method |-> "Credit Card"]
  /\ lastWritten' = [amount |-> Num(0), method |-> "Credit Card"]
  /\ paymentsFetches' = paymentsFetches + 1
  /\ statusFetches' = statusFetches + 1
  /\ Calls({"paymentsApi.myPayments", "membershipsApi.getStatus"})
  /\ UNCHANGED << view, userMemberId, showCreateModal, showReceiptModal,
                  selectedReceipt, isCreating, receiptReqs, payments,
                  srvPayments, created, createFormData, membershipReqs,
                  membershipsFetches, paymentsLoaded, statusFilter, now,
                  isLoading, loadReqs, srvMemberships, membershipStatus,
                  serverDate, registerData, loginData, authReqs, storage,
                  location, navigations, memberships, showEditModal,
                  showDeleteModal, selectedMembership, editFormData,
                  isUpdating, isDeleting, updateReqs, deleteReqs,
                  lastEditOpened, receiptLog, members, attendance,
                  loadAnswers, other, otherReqs >>

\* mutant: the catch block also closes the modal and resets the form
MP_handleSubmitRejected_resets ==
  /\ view = "MemberPayment"
  /\ \E i \in DOMAIN createReqs :
        /\ createReqs[i].resp = "err"
        /\ createReqs' = RemoveAt(createReqs, i)
        /\ showError(MessageOr(createReqs[i].message, "Payment failed"))
  /\ isProcessing' = isLoadingOnSettle
  /\ showPaymentModal' = FALSE
  /\ formData' = [amount |-> Num(0), method |-> "Credit Card"]
  /\ lastWritten' = [amount |-> Num(0), method |-> "Credit Card"]
  /\ UNCHANGED << view, userMemberId, showCreateModal, showReceiptModal,
                  selectedReceipt, isCreating, receiptReqs, paymentsFetches,
                  statusFetches, payments, srvPayments, created,
                  createFormData, membershipReqs, membershipsFetches,
                  paymentsLoaded, statusFilter, now, isLoading, loadReqs,
                  srvMemberships, membershipStatus, serverDate, issued,
                  registerData, loginData, authReqs, storage, location,
                  navigations, memberships, showEditModal, showDeleteModal,
                  selectedMembership, editFormData, isUpdating, isDeleting,
                  updateReqs, deleteReqs, lastEditOpened, receiptLog,
                  members, attendance, loadAnswers, other, otherReqs >>

\* the request was rejected: the catch block
MP_handleSubmitRejected ==
  /\ view = "MemberPayment"
  /\ \E i \in DOMAIN createReqs :
        /\ createReqs[i].resp = "err"
        /\ createReqs' = RemoveAt(createReqs, i)
        /\ showError(MessageOr(createReqs[i].message, "Payment failed"))
  /\ isProcessing' = isLoadingOnSettle
  /\ UNCHANGED << view, userMemberId, formData, showPaymentModal,
                  showCreateModal, showReceiptModal, selectedReceipt,
                  isCreating, receiptReqs, paymentsFetches, statusFetches,
                  payments, srvPayments, created, createFormData,
                  membershipReqs, membershipsFetches, lastWritten,
                  paymentsLoaded, statusFilter, now, isLoading, loadReqs,
                  srvMemberships, membershipStatus, serverDate, issued,
                  registerData, loginData, authReqs, storage, location,
                  navigations, memberships, showEditModal, showDeleteModal,
                  selectedMembership, editFormData, isUpdating, isDeleting,
                  updateReqs, deleteReqs, lastEditOpened, receiptLog,
                  members, attendance, loadAnswers, other, otherReqs >>

\* handleViewReceipt up to its await
MP_handleViewReceipt ==
  /\ view = "MemberPayment"
  /\ Len(receiptReqs) < MaxReceiptReqs
  /\ \E k \in DOMAIN payments :
        /\ receiptReqs' = Append(receiptReqs, Request(payments[k].id))
        /\ receiptLog' = [receiptLog EXCEPT !.last = payments[k].id]
  /\ Calls({"paymentsApi.generateReceipt"})
  /\ toast' = <<>>
  /\ UNCHANGED << view, userMemberId, formData, showPaymentModal,
                  showCreateModal, showReceiptModal, selectedReceipt,
                  isProcessing, isCreating, createReqs, paymentsFetches,
                  statusFetches, payments, srvPayments, created,
                  createFormData, membershipReqs, membershipsFetches,
                  lastWritten, paymentsLoaded, statusFilter, now, isLoading,
                  loadReqs, srvMemberships, membershipStatus, serverDate,
                  registerData, loginData, authReqs, storage, location,
                  navigations, memberships, showEditModal, showDeleteModal,
                  selectedMembership, editFormData, isUpdating, isDeleting,
                  updateReqs, deleteReqs, lastEditOpened, members,
                  attendance, loadAnswers, other, otherReqs >>

MP_handleViewReceiptResolved ==
  /\ view = "MemberPayment"
  /\ \E i \in DOMAIN receiptReqs :
        /\ receiptReqs[i].resp = "ok"
        /\ selectedReceipt' = receiptReqs[i].payload
        /\ receiptReqs' = RemoveAt(receiptReqs, i)
  /\ showReceiptModal' = TRUE
  /\ showSuccess("Receipt generated!")
  /\ UNCHANGED << view, userMemberId, formData, showPaymentModal,
                  showCreateModal, isProcessing, isCreating, createReqs,
                  paymentsFetches, statusFetches, payments, srvPayments,
                  created, createFormData, membershipReqs,
                  membershipsFetches, lastWritten, paymentsLoaded,
                  statusFilter, now, isLoading, loadReqs, srvMemberships,
                  membershipStatus, serverDate, issued, registerData,
                  loginData, authReqs, storage, location, navigations,
                  memberships, showEditModal, showDeleteModal,
                  selectedMembership, editFormData, isUpdating, isDeleting,
                  updateReqs, deleteReqs, lastEditOpened, receiptLog,
                  members, attendance, loadAnswers, other, otherReqs >>

MP_handleViewReceiptRejected ==
  /\ view = "MemberPayment"
  /\ \E i \in DOMAIN receiptReqs :
        /\ receiptReqs[i].resp = "err"
        /\ receiptReqs' = RemoveAt(receiptReqs, i)
  /\ showError("Failed to generate receipt")
  /\ receiptLog' = [receiptLog EXCEPT !.failed = TRUE]
  /\ UNCHANGED << view, userMemberId, formData, showPaymentModal,
                  showCreateModal, showReceiptModal, selectedReceipt,
                  isProcessing, isCreating, createReqs, paymentsFetches,
                  statusFetches, payments, srvPayments, created,
                  createFormData, membershipReqs, membershipsFetches,
                  lastWritten, paymentsLoaded, statusFilter, now, isLoading,
                  loadReqs, srvMemberships, membershipStatus, serverDate,
                  issued, registerData, loginData, authReqs, storage,
                  location, navigations, memberships, showEditModal,
                  showDeleteModal, selectedMembership, editFormData,
                  isUpdating, isDeleting, updateReqs, deleteReqs,
                  lastEditOpened, members, attendance, loadAnswers, other,
                  otherReqs >>

(* ====================== PaymentsManagement (admin) ===================== *)
\* disabled={isCreating || formData.amount <= 0}
PM_submitDisabled(creating, fd) == creating \/ JsLeq(fd.amount, Num(0))

\* the member select is required: it fails only on an empty option value, and
\* the options' values are the texts of 0 and of the member ids
PM_memberValueMissing(fd) == ToText(fd.member_id) = <<>>

\* member select: required; amount input: type="number" required min="0" step="1"
PM_formValid(fd) ==
  /\ ~PM_memberValueMissing(fd)
  /\ ~ValueMissing(fd.amount)
  /\ ~RangeUnderflow(fd.amount, 0)

\* createPayment(formData)
PM_payload(fd) ==
  [member_id |-> fd.member_id, amount |-> fd.amount, method |-> fd.method]

\* setFormData({ ...formData, member_id: parseInt(e.target.value) })
PM_memberChangeData(fd, option) ==
  [fd EXCEPT !.member_id = parseFloat(ToText(option)).v]

\* setFormData({ ...formData, amount: parseFloat(e.target.value) })
PM_amountChangeData(fd, text) ==
  [fd EXCEPT !.amount = parseFloat(NumberInputValue(text))]

\* mutant: the spread of the initial form instead of the current one
PM_methodClickData_stale(fd, method) ==
  [member_id |-> 0, amount |-> Num(0), method |-> method]

\* setFormData({ ...formData, method: method.value })
PM_methodClickData(fd, method) == [fd EXCEPT !.method = method]

PM_OpenCreateModal ==
  /\ view = "PaymentsManagement"
  /\ ~showCreateModal
  /\ showCreateModal' = TRUE
  /\ toast' = <<>>
  /\ UNCHANGED << view, userMemberId, formData, showPaymentModal,
                  showReceiptModal, selectedReceipt, isProcessing,
                  isCreating, createReqs, receiptReqs, paymentsFetches,
                  statusFetches, payments, srvPayments, created,
                  createFormData, membershipReqs, membershipsFetches,
                  lastWritten, paymentsLoaded, statusFilter, now, isLoading,
                  loadReqs, srvMemberships, membershipStatus, serverDate,
                  issued, registerData, loginData, authReqs, storage,
                  location, navigations, memberships, showEditModal,
                  showDeleteModal, selectedMembership, editFormData,
                  isUpdating, isDeleting, updateReqs, deleteReqs,
                  lastEditOpened, receiptLog, members, attendance,
                  loadAnswers, other, otherReqs >>

PM_CloseCreateModal_resets ==
  /\ view = "PaymentsManagement"
  /\ showCreateModal
  /\ showCreateModal' = FALSE
  /\ formData' = PM_initialFormData
  /\ toast' = <<>>
  /\ UNCHANGED << view, userMemberId, showPaymentModal, showReceiptModal,
                  selectedReceipt, isProcessing, isCreating, createReqs,
                  receiptReqs, paymentsFetches, statusFetches, payments,
                  srvPayments, created, createFormData, membershipReqs,
                  membershipsFetches, lastWritten, paymentsLoaded,
                  statusFilter, now, isLoading, loadReqs, srvMemberships,
                  membershipStatus, serverDate, issued, registerData,
                  loginData, authReqs, storage, location, navigations,
                  memberships, showEditModal, showDeleteModal,
                  selectedMembership, editFormData, isUpdating, isDeleting,
                  updateReqs, deleteReqs, lastEditOpened, receiptLog,
                  members, attendance, loadAnswers, other, otherReqs >>

\* the Cancel button and the modal's onClose
PM_CloseCreateModal ==
  /\ view = "PaymentsManagement"
  /\ showCreateModal
  /\ showCreateModal' = FALSE
  /\ toast' = <<>>
  /\ UNCHANGED << view, userMemberId, formData, showPaymentModal,
                  showReceiptModal, selectedReceipt, isProcessing,
                  isCreating, createReqs, receiptReqs, paymentsFetches,
                  statusFetches, payments, srvPayments, created,
                  createFormData, membershipReqs, membershipsFetches,
                  lastWritten, paymentsLoaded, statusFilter, now, isLoading,
                  loadReqs, srvMemberships, membershipStatus, serverDate,
                  issued, registerData, loginData, authReqs, storage,
                  location, navigations, memberships, showEditModal,
                  showDeleteModal, selectedMembership, editFormData,
                  isUpdating, isDeleting, updateReqs, deleteReqs,
                  lastEditOpened, receiptLog, members, attendance,
                  loadAnswers, other, otherReqs >>

PM_memberChange ==
  /\ view = "PaymentsManagement"
  /\ showCreateModal
  /\ \E option \in MemberOptions :
        /\ formData' = PM_memberChangeData(formData, option)
        /\ lastWritten' = [lastWritten EXCEPT !.member_id = option]
  /\ toast' = <<>>
  /\ UNCHANGED << view, userMemberId, showPaymentModal, showCreateModal,
                  showReceiptModal, selectedReceipt, isProcessing,
                  isCreating, createReqs, receiptReqs, paymentsFetches,
                  statusFetches, payments, srvPayments, created,
                  createFormData, membershipReqs, membershipsFetches,
                  paymentsLoaded, statusFilter, now, isLoading, loadReqs,
                  srvMemberships, membershipStatus, serverDate, issued,
                  registerData, loginData, authReqs, storage, location,
                  navigations, memberships, showEditModal, showDeleteModal,
                  selectedMembership, editFormData, isUpdating, isDeleting,
                  updateReqs, deleteReqs, lastEditOpened, receiptLog,
                  members, attendance, loadAnswers, other, otherReqs >>

PM_amountChange ==
  /\ view = "PaymentsManagement"
  /\ showCreateModal
  /\ \E text \in Texts :
        /\ formData' = PM_amountChangeData(formData, text)
        /\ lastWritten' =
             [lastWritten EXCEPT !.amount = parseFloat(NumberInputValue(text))]
  /\ toast' = <<>>
  /\ UNCHANGED << view, userMemberId, showPaymentModal, showCreateModal,
                  showReceiptModal, selectedReceipt, isProcessing,
                  isCreating, createReqs, receiptReqs, paymentsFetches,
                  statusFetches, payments, srvPayments, created,
                  createFormData, membershipReqs, membershipsFetches,
                  paymentsLoaded, statusFilter, now, isLoading, loadReqs,
                  srvMemberships, membershipStatus, serverDate, issued,
                  registerData, loginData, authReqs, storage, location,
                  navigations, memberships, showEditModal, showDeleteModal,
                  selectedMembership, editFormData, isUpdating, isDeleting,
                  updateReqs, deleteReqs, lastEditOpened, receiptLog,
                  members, attendance, loadAnswers, other, otherReqs >>

PM_methodClick ==
  /\ view = "PaymentsManagement"
  /\ showCreateModal
  /\ \E method \in ClickedMethods :
        /\ formData' = PM_methodClickData(formData, method)
        /\ lastWritten' = [lastWritten EXCEPT !.method = method]
  /\ toast' = <<>>
  /\ UNCHANGED << view, userMemberId, showPaymentModal, showCreateModal,
                  showReceiptModal, selectedReceipt, isProcessing,
                  isCreating, createReqs, receiptReqs, paymentsFetches,
                  statusFetches, payments, srvPayments, created,
                  createFormData, membershipReqs, membershipsFetches,
                  paymentsLoaded, statusFilter, now, isLoading, loadReqs,
                  srvMemberships, membershipStatus, serverDate, issued,
                  registerData, loginData, authReqs, storage, location,
                  navigations, memberships, showEditModal, showDeleteModal,
                  selectedMembership, editFormData, isUpdating, isDeleting,
                  updateReqs, deleteReqs, lastEditOpened, receiptLog,
                  members, attendance, loadAnswers, other, otherReqs >>

\* handleSubmit up to its await
PM_handleSubmit ==
  /\ view = "PaymentsManagement"
  /\ showCreateModal
  /\ ~PM_submitDisabled(isCreating, formData)
  /\ PM_formValid(formData)
  /\ CreateBudget
  /\ createReqs' = Append(createReqs, Request(PM_payload(formData)))
  /\ isCreating' = isLoadingOnMutate
  /\ Calls({createPayment})
  /\ toast' = <<>>
  /\ UNCHANGED << view, userMemberId, formData, showPaymentModal,
                  showCreateModal, showReceiptModal, selectedReceipt,
                  isProcessing, receiptReqs, paymentsFetches, statusFetches,
                  payments, srvPayments, created, createFormData,
                  membershipReqs, membershipsFetches, lastWritten,
                  paymentsLoaded, statusFilter, now, isLoading, loadReqs,
                  srvMemberships, membershipStatus, serverDate, registerData,
                  loginData, authReqs, storage, location, navigations,
                  memberships, showEditModal, showDeleteModal,
                  selectedMembership, editFormData, isUpdating, isDeleting,
                  updateReqs, deleteReqs, lastEditOpened, receiptLog,
                  members, attendance, loadAnswers, other, otherReqs >>

\* the request succeeded: the rest of the try block
PM_handleSubmitResolved ==
  /\ view = "PaymentsManagement"
  /\ \E i \in DOMAIN createReqs :
        /\ createReqs[i].resp = "ok"
        /\ createReqs' = RemoveAt(createReqs, i)
  /\ isCreating' = isLoadingOnSettle
  /\ showSuccess("Payment recorded successfully!")
  /\ showCreateModal' = FALSE
  /\ formData' = [member_id |-> 0, amount |-> Num(0), method |-> "Credit Card"]
  /\ lastWritten' =
       [member_id |-> 0, amount |-> Num(0), method |-> "Credit Card"]
  /\ paymentsFetches' = paymentsFetches + 1
  /\ Calls({"paymentsApi.getAll"})
  /\ UNCHANGED << view, userMemberId, showPaymentModal, showReceiptModal,
                  selectedReceipt, isProcessing, receiptReqs, statusFetches,
                  payments, srvPayments, created, createFormData,
                  membershipReqs, membershipsFetches, paymentsLoaded,
                  statusFilter, now, isLoading, loadReqs, srvMemberships,
                  membershipStatus, serverDate, registerData, loginData,
                  authReqs, storage, location, navigations, memberships,
                  showEditModal, showDeleteModal, selectedMembership,
                  editFormData, isUpdating, isDeleting, updateReqs,
                  deleteReqs, lastEditOpened, receiptLog, members,
                  attendance, loadAnswers, other, otherReqs >>

\* the request was rejected: the catch block
PM_handleSubmitRejected ==
  /\ view = "PaymentsManagement"
  /\ \E i \in DOMAIN createReqs :
        /\ createReqs[i].resp = "err"
        /\ createReqs' = RemoveAt(createReqs, i)
        /\ showError(MessageOr(createReqs[i].message,
                                "Failed to record payment"))
  /\ isCreating' = isLoadingOnSettle
  /\ UNCHANGED << view, userMemberId, formData, showPaymentModal,
                  showCreateModal, showReceiptModal, selectedReceipt,
                  isProcessing, receiptReqs, paymentsFetches, statusFetches,
                  payments, srvPayments, created, createFormData,
                  membershipReqs, membershipsFetches, lastWritten,
                  paymentsLoaded, statusFilter, now, isLoading, loadReqs,
                  srvMemberships, membershipStatus, serverDate, issued,
                  registerData, loginData, authReqs, storage, location,
                  navigations, memberships, showEditModal, showDeleteModal,
                  selectedMembership, editFormData, isUpdating, isDeleting,
                  updateReqs, deleteReqs, lastEditOpened, receiptLog,
                  members, attendance, loadAnswers, other, otherReqs >>

\* handleGenerateReceipt up to its await
PM_handleGenerateReceipt ==
  /\ view = "PaymentsManagement"
  /\ Len(receiptReqs) < MaxReceiptReqs
  /\ \E k \in DOMAIN payments :
        /\ receiptReqs' = Append(receiptReqs, Request(payments[k].id))
        /\ receiptLog' = [receiptLog EXCEPT !.last = payments[k].id]
  /\ Calls({"paymentsApi.generateReceipt"})
  /\ toast' = <<>>
  /\ UNCHANGED << view, userMemberId, formData, showPaymentModal,
                  showCreateModal, showReceiptModal, selectedReceipt,
                  isProcessing, isCreating, createReqs, paymentsFetches,
                  statusFetches, payments, srvPayments, created,
                  createFormData, membershipReqs, membershipsFetches,
                  lastWritten, paymentsLoaded, statusFilter, now, isLoading,
                  loadReqs, srvMemberships, membershipStatus, serverDate,
                  registerData, loginData, authReqs, storage, location,
                  navigations, memberships, showEditModal, showDeleteModal,
                  selectedMembership, editFormData, isUpdating, isDeleting,
                  updateReqs, deleteReqs, lastEditOpened, members,
                  attendance, loadAnswers, other, otherReqs >>

PM_handleGenerateReceiptResolved ==
  /\ view = "PaymentsManagement"
  /\ \E i \in DOMAIN receiptReqs :
        /\ receiptReqs[i].resp = "ok"
        /\ selectedReceipt' = receiptReqs[i].payload
        /\ receiptReqs' = RemoveAt(receiptReqs, i)
  /\ showReceiptModal' = TRUE
  /\ showSuccess("Receipt generated successfully!")
  /\ UNCHANGED << view, userMemberId, formData, showPaymentModal,
                  showCreateModal, isProcessing, isCreating, createReqs,
                  paymentsFetches, statusFetches, payments, srvPayments,
                  created, createFormData, membershipReqs,
                  membershipsFetches, lastWritten, paymentsLoaded,
                  statusFilter, now, isLoading, loadReqs, srvMemberships,
                  membershipStatus, serverDate, issued, registerData,
                  loginData, authReqs, storage, location, navigations,
                  memberships, showEditModal, showDeleteModal,
                  selectedMembership, editFormData, isUpdating, isDeleting,
                  updateReqs, deleteReqs, lastEditOpened, receiptLog,
                  members, attendance, loadAnswers, other, otherReqs >>

\* mutant: the catch block shows the backend's message, as the others do
PM_handleGenerateReceiptRejected_msg ==
  /\ view = "PaymentsManagement"
  /\ \E i \in DOMAIN receiptReqs :
        /\ receiptReqs[i].resp = "err"
        /\ receiptReqs' = RemoveAt(receiptReqs, i)
        /\ showError(MessageOr(receiptReqs[i].message,
                                "Failed to generate receipt"))
  /\ receiptLog' = [receiptLog EXCEPT !.failed = TRUE]
  /\ UNCHANGED << view, userMemberId, formData, showPaymentModal,
                  showCreateModal, showReceiptModal, selectedReceipt,
                  isProcessing, isCreating, createReqs, paymentsFetches,
                  statusFetches, payments, srvPayments, created,
                  createFormData, membershipReqs, membershipsFetches,
                  lastWritten, paymentsLoaded, statusFilter, now, isLoading,
                  loadReqs, srvMemberships, membershipStatus, serverDate,
                  issued, registerData, loginData, authReqs, storage,
                  location, navigations, memberships, showEditModal,
                  showDeleteModal, selectedMembership, editFormData,
                  isUpdating, isDeleting, updateReqs, deleteReqs,
                  lastEditOpened, members, attendance, loadAnswers, other,
                  otherReqs >>

PM_handleGenerateReceiptRejected ==
  /\ view = "PaymentsManagement"
  /\ \E i \in DOMAIN receiptReqs :
        /\ receiptReqs[i].resp = "err"
        /\ receiptReqs' = RemoveAt(receiptReqs, i)
  /\ showError("Failed to generate receipt")
  /\ receiptLog' = [receiptLog EXCEPT !.failed = TRUE]
  /\ UNCHANGED << view, userMemberId, formData, showPaymentModal,
                  showCreateModal, showReceiptModal, selectedReceipt,
                  isProcessing, isCreating, createReqs, paymentsFetches,
                  statusFetches, payments, srvPayments, created,
                  createFormData, membershipReqs, membershipsFetches,
                  lastWritten, paymentsLoaded, statusFilter, now, isLoading,
                  loadReqs, srvMemberships, membershipStatus, serverDate,
                  issued, registerData, loginData, authReqs, storage,
                  location, navigations, memberships, showEditModal,
                  showDeleteModal, selectedMembership, editFormData,
                  isUpdating, isDeleting, updateReqs, deleteReqs,
                  lastEditOpened, members, attendance, loadAnswers, other,
                  otherReqs >>

(* ================= MembershipsManagement: create form ================== *)
\* disabled={isCreating}
MM_submitDisabled(creating) == creating

\* member select: required; Type Name: required; Duration: type="number"
\* required min="1"; Fee: type="number" required min="0" step="0.01"
MM_formValid(fd) ==
  /\ ToText(fd.member_id) # <<>>
  /\ fd.type # ""
  /\ ~ValueMissing(fd.duration) /\ ~RangeUnderflow(fd.duration, 1)
  /\ ~ValueMissing(fd.fee) /\ ~RangeUnderflow(fd.fee, 0)

\* createMembership(createFormData)
MM_payload(fd) ==
  [member_id |-> fd.member_id, type |-> fd.type, duration |-> fd.duration,
   fee |-> fd.fee]

\* mutant: the spread of the current form left out
selectMembershipTypeData_nospread(fd, type) ==
  [member_id |-> 0, type |-> type.label, duration |-> Num(type.duration),
   fee |-> Num(type.fee)]

\* setCreateFormData({ ...createFormData, type: type.label,
\*                     duration: type.duration, fee: type.fee })
selectMembershipTypeData(fd, type) ==
  [fd EXCEPT !.type = type.label, !.duration = Num(type.duration),
             !.fee = Num(type.fee)]

\* the onChange handlers of the four inputs
MM_memberChangeData(fd, option) ==
  [fd EXCEPT !.member_id = parseFloat(ToText(option)).v]
MM_typeChangeData(fd, text) == [fd EXCEPT !.type = text]
MM_durationChangeData(fd, text) ==
  [fd EXCEPT !.duration = parseFloat(NumberInputValue(text))]
MM_feeChangeData(fd, text) ==
  [fd EXCEPT !.fee = parseFloat(NumberInputValue(text))]

\* The form is explored while no create-membership request is in flight,
\* up to the first membership the backend stores.
MM_Editable ==
  /\ view = "MembershipsManagement"
  /\ showCreateModal
  /\ membershipReqs = <<>>
  /\ srvMemberships = <<>>

MM_OpenCreateModal ==
  /\ view = "MembershipsManagement"
  /\ ~showCreateModal
  /\ showCreateModal' = TRUE
  /\ toast' = <<>>
  /\ UNCHANGED << view, userMemberId, formData, showPaymentModal,
                  showReceiptModal, selectedReceipt, isProcessing,
                  isCreating, createReqs, receiptReqs, paymentsFetches,
                  statusFetches, payments, srvPayments, created,
                  createFormData, membershipReqs, membershipsFetches,
                  lastWritten, paymentsLoaded, statusFilter, now, isLoading,
                  loadReqs, srvMemberships, membershipStatus, serverDate,
                  issued, registerData, loginData, authReqs, storage,
                  location, navigations, memberships, showEditModal,
                  showDeleteModal, selectedMembership, editFormData,
                  isUpdating, isDeleting, updateReqs, deleteReqs,
                  lastEditOpened, receiptLog, members, attendance,
                  loadAnswers, other, otherReqs >>

\* the Cancel button and the modal's onClose
MM_CloseCreateModal ==
  /\ view = "MembershipsManagement"
  /\ showCreateModal
  /\ showCreateModal' = FALSE
  /\ toast' = <<>>
  /\ UNCHANGED << view, userMemberId, formData, showPaymentModal,
                  showReceiptModal, selectedReceipt, isProcessing,
                  isCreating, createReqs, receiptReqs, paymentsFetches,
                  statusFetches, payments, srvPayments, created,
                  createFormData, membershipReqs, membershipsFetches,
                  lastWritten, paymentsLoaded, statusFilter, now, isLoading,
                  loadReqs, srvMemberships, membershipStatus, serverDate,
                  issued, registerData, loginData, authReqs, storage,
                  location, navigations, memberships, showEditModal,
                  showDeleteModal, selectedMembership, editFormData,
                  isUpdating, isDeleting, updateReqs, deleteReqs,
                  lastEditOpened, receiptLog, members, attendance,
                  loadAnswers, other, otherReqs >>

selectMembershipTypeOf(i) ==
  /\ MM_Editable
  /\ createFormData' = selectMembershipTypeData(createFormData, membershipTypes[i])
  /\ lastWritten' = [lastWritten EXCEPT
                       !.type = membershipTypes[i].label,
                       !.duration = Num(membershipTypes[i].duration),
                       !.fee = Num(membershipTypes[i].fee)]
  /\ toast' = <<>>
  /\ UNCHANGED << view, userMemberId, formData, showPaymentModal,
                  showCreateModal, showReceiptModal, selectedReceipt,
                  isProcessing, isCreating, createReqs, receiptReqs,
                  paymentsFetches, statusFetches, payments, srvPayments,
                  created, membershipReqs, membershipsFetches,
                  paymentsLoaded, statusFilter, now, isLoading, loadReqs,
                  srvMemberships, membershipStatus, serverDate, issued,
                  registerData, loginData, authReqs, storage, location,
                  navigations, memberships, showEditModal, showDeleteModal,
                  selectedMembership, editFormData, isUpdating, isDeleting,
                  updateReqs, deleteReqs, lastEditOpened, receiptLog,
                  members, attendance, loadAnswers, other, otherReqs >>

selectMembershipType == \E i \in DOMAIN membershipTypes : selectMembershipTypeOf(i)

MM_memberChange ==
  /\ MM_Editable
  /\ \E option \in MemberOptions :
        /\ createFormData' = MM_memberChangeData(createFormData, option)
        /\ lastWritten' = [lastWritten EXCEPT !.member_id = option]
  /\ toast' = <<>>
  /\ UNCHANGED << view, userMemberId, formData, showPaymentModal,
                  showCreateModal, showReceiptModal, selectedReceipt,
                  isProcessing, isCreating, createReqs, receiptReqs,
                  paymentsFetches, statusFetches, payments, srvPayments,
                  created, membershipReqs, membershipsFetches,
                  paymentsLoaded, statusFilter, now, isLoading, loadReqs,
                  srvMemberships, membershipStatus, serverDate, issued,
                  registerData, loginData, authReqs, storage, location,
                  navigations, memberships, showEditModal, showDeleteModal,
                  selectedMembership, editFormData, isUpdating, isDeleting,
                  updateReqs, deleteReqs, lastEditOpened, receiptLog,
                  members, attendance, loadAnswers, other, otherReqs >>

MM_typeChange ==
  /\ MM_Editable
  /\ \E text \in TypeTexts :
        /\ createFormData' = MM_typeChangeData(createFormData, text)
        /\ lastWritten' = [lastWritten EXCEPT !.type = text]
  /\ toast' = <<>>
  /\ UNCHANGED << view, userMemberId, formData, showPaymentModal,
                  showCreateModal, showReceiptModal, selectedReceipt,
                  isProcessing, isCreating, createReqs, receiptReqs,
                  paymentsFetches, statusFetches, payments, srvPayments,
                  created, membershipReqs, membershipsFetches,
                  paymentsLoaded, statusFilter, now, isLoading, loadReqs,
                  srvMemberships, membershipStatus, serverDate, issued,
                  registerData, loginData, authReqs, storage, location,
                  navigations, memberships, showEditModal, showDeleteModal,
                  selectedMembership, editFormData, isUpdating, isDeleting,
                  updateReqs, deleteReqs, lastEditOpened, receiptLog,
                  members, attendance, loadAnswers, other, otherReqs >>

MM_durationChange ==
  /\ MM_Editable
  /\ \E text \in Texts :
        /\ createFormData' = MM_durationChangeData(createFormData, text)
        /\ lastWritten' =
             [lastWritten EXCEPT !.duration = parseFloat(NumberInputValue(text))]
  /\ toast' = <<>>
  /\ UNCHANGED << view, userMemberId, formData, showPaymentModal,
                  showCreateModal, showReceiptModal, selectedReceipt,
                  isProcessing, isCreating, createReqs, receiptReqs,
                  paymentsFetches, statusFetches, payments, srvPayments,
                  created, membershipReqs, membershipsFetches,
                  paymentsLoaded, statusFilter, now, isLoading, loadReqs,
                  srvMemberships, membershipStatus, serverDate, issued,
                  registerData, loginData, authReqs, storage, location,
                  navigations, memberships, showEditModal, showDeleteModal,
                  selectedMembership, editFormData, isUpdating, isDeleting,
                  updateReqs, deleteReqs, lastEditOpened, receiptLog,
                  members, attendance, loadAnswers, other, otherReqs >>

MM_feeChange ==
  /\ MM_Editable
  /\ \E text \in Texts :
        /\ createFormData' = MM_feeChangeData(createFormData, text)
        /\ lastWritten' =
             [lastWritten EXCEPT !.fee = parseFloat(NumberInputValue(text))]
  /\ toast' = <<>>
  /\ UNCHANGED << view, userMemberId, formData, showPaymentModal,
                  showCreateModal, showReceiptModal, selectedReceipt,
                  isProcessing, isCreating, createReqs, receiptReqs,
                  paymentsFetches, statusFetches, payments, srvPayments,
                  created, membershipReqs, membershipsFetches,
                  paymentsLoaded, statusFilter, now, isLoading, loadReqs,
                  srvMemberships, membershipStatus, serverDate, issued,
                  registerData, loginData, authReqs, storage, location,
                  navigations, memberships, showEditModal, showDeleteModal,
                  selectedMembership, editFormData, isUpdating, isDeleting,
                  updateReqs, deleteReqs, lastEditOpened, receiptLog,
                  members, attendance, loadAnswers, other, otherReqs >>

\* handleCreateSubmit up to its await
handleCreateSubmit ==
  /\ view = "MembershipsManagement"
  /\ showCreateModal
  /\ ~MM_submitDisabled(isCreating)
  /\ MM_formValid(createFormData)
  /\ CreateBudget
  /\ membershipReqs' = Append(membershipReqs, Request(MM_payload(createFormData)))
  /\ isCreating' = isLoadingOnMutate
  /\ Calls({createMembership})
  /\ toast' = <<>>
  /\ UNCHANGED << view, userMemberId, formData, showPaymentModal,
                  showCreateModal, showReceiptModal, selectedReceipt,
                  isProcessing, createReqs, receiptReqs, paymentsFetches,
                  statusFetches, payments, srvPayments, created,
                  createFormData, membershipsFetches, lastWritten,
                  paymentsLoaded, statusFilter, now, isLoading, loadReqs,
                  srvMemberships, membershipStatus, serverDate, registerData,
                  loginData, authReqs, storage, location, navigations,
                  memberships, showEditModal, showDeleteModal,
                  selectedMembership, editFormData, isUpdating, isDeleting,
                  updateReqs, deleteReqs, lastEditOpened, receiptLog,
                  members, attendance, loadAnswers, other, otherReqs >>

\* the request succeeded: the rest of the try block
handleCreateSubmitResolved ==
  /\ view = "MembershipsManagement"
  /\ \E i \in DOMAIN membershipReqs :
        /\ membershipReqs[i].resp = "ok"
        /\ membershipReqs' = RemoveAt(membershipReqs, i)
  /\ isCreating' = isLoadingOnSettle
  /\ showSuccess("Membership created successfully!")
  /\ showCreateModal' = FALSE
  /\ createFormData' =
       [member_id |-> 0, type |-> "", duration |-> Num(30), fee |-> Num(0)]
  /\ lastWritten' =
       [member_id |-> 0, type |-> "", duration |-> Num(30), fee |-> Num(0)]
  /\ membershipsFetches' = membershipsFetches + 1
  /\ Calls({"membershipsApi.getAll"})
  /\ UNCHANGED << view, userMemberId, formData, showPaymentModal,
                  showReceiptModal, selectedReceipt, isProcessing,
                  createReqs, receiptReqs, paymentsFetches, statusFetches,
                  payments, srvPayments, created, paymentsLoaded,
                  statusFilter, now, isLoading, loadReqs, srvMemberships,
                  membershipStatus, serverDate, registerData, loginData,
                  authReqs, storage, location, navigations, memberships,
                  showEditModal, showDeleteModal, selectedMembership,
                  editFormData, isUpdating, isDeleting, updateReqs,
                  deleteReqs, lastEditOpened, receiptLog, members,
                  attendance, loadAnswers, other, otherReqs >>

\* the request was rejected: the catch block
handleCreateSubmitRejected ==
  /\ view = "MembershipsManagement"
  /\ \E i \in DOMAIN membershipReqs :
        /\ membershipReqs[i].resp = "err"
        /\ membershipReqs' = RemoveAt(membershipReqs, i)
        /\ showError(MessageOr(membershipReqs[i].message,
                                "Failed to create membership"))
  /\ isCreating' = isLoadingOnSettle
  /\ UNCHANGED << view, userMemberId, formData, showPaymentModal,
                  showCreateModal, showReceiptModal, selectedReceipt,
                  isProcessing, createReqs, receiptReqs, paymentsFetches,
                  statusFetches, payments, srvPayments, created,
                  createFormData, membershipsFetches, lastWritten,
                  paymentsLoaded, statusFilter, now, isLoading, loadReqs,
                  srvMemberships, membershipStatus, serverDate, issued,
                  registerData, loginData, authReqs, storage, location,
                  navigations, memberships, showEditModal, showDeleteModal,
                  selectedMembership, editFormData, isUpdating, isDeleting,
                  updateReqs, deleteReqs, lastEditOpened, receiptLog,
                  members, attendance, loadAnswers, other, otherReqs >>

(* ============================== backend =============================== *)
\* POST /payments is accepted: the payment is stored
SrvCreateAccept ==
  /\ \E i \in Pending(createReqs) :
        /\ srvCreate(createReqs[i].payload)
        /\ createReqs' = [createReqs EXCEPT ![i] = Answered(@, "ok", "")]
  /\ created' = created + 1
  /\ toast' = <<>>
  /\ UNCHANGED << view, userMemberId, formData, showPaymentModal,
                  showCreateModal, showReceiptModal, selectedReceipt,
                  isProcessing, isCreating, receiptReqs, paymentsFetches,
                  statusFetches, payments, createFormData, membershipReqs,
                  membershipsFetches, lastWritten, paymentsLoaded,
                  statusFilter, now, isLoading, loadReqs, srvMemberships,
                  membershipStatus, serverDate, issued, registerData,
                  loginData, authReqs, storage, location, navigations,
                  memberships, showEditModal, showDeleteModal,
                  selectedMembership, editFormData, isUpdating, isDeleting,
                  updateReqs, deleteReqs, lastEditOpened, receiptLog,
                  members, attendance, loadAnswers, other, otherReqs >>

\* POST /payments is rejected, or fails on the way
SrvCreateReject ==
  /\ \E i \in Pending(createReqs), msg \in BackendMessages :
        createReqs' = [createReqs EXCEPT ![i] = Answered(@, "err", msg)]
  /\ toast' = <<>>
  /\ UNCHANGED << view, userMemberId, formData, showPaymentModal,
                  showCreateModal, showReceiptModal, selectedReceipt,
                  isProcessing, isCreating, receiptReqs, paymentsFetches,
                  statusFetches, payments, srvPayments, created,
                  createFormData, membershipReqs, membershipsFetches,
                  lastWritten, paymentsLoaded, statusFilter, now, isLoading,
                  loadReqs, srvMemberships, membershipStatus, serverDate,
                  issued, registerData, loginData, authReqs, storage,
                  location, navigations, memberships, showEditModal,
                  showDeleteModal, selectedMembership, editFormData,
                  isUpdating, isDeleting, updateReqs, deleteReqs,
                  lastEditOpened, receiptLog, members, attendance,
                  loadAnswers, other, otherReqs >>

\* POST /memberships is accepted
SrvMembershipAccept ==
  /\ \E i \in Pending(membershipReqs) :
        /\ membershipReqs' = [membershipReqs EXCEPT ![i] = Answered(@, "ok", "")]
        /\ srvMemberships' =
             Append(srvMemberships,
                    membershipOf(membershipReqs[i].payload,
                                 Len(srvMemberships) + 1, serverDate))
  /\ created' = created + 1
  /\ toast' = <<>>
  /\ UNCHANGED << view, userMemberId, formData, showPaymentModal,
                  showCreateModal, showReceiptModal, selectedReceipt,
                  isProcessing, isCreating, createReqs, receiptReqs,
                  paymentsFetches, statusFetches, payments, srvPayments,
                  createFormData, membershipsFetches, lastWritten,
                  paymentsLoaded, statusFilter, now, isLoading, loadReqs,
                  membershipStatus, serverDate, issued, registerData,
                  loginData, authReqs, storage, location, navigations,
                  memberships, showEditModal, showDeleteModal,
                  selectedMembership, editFormData, isUpdating, isDeleting,
                  updateReqs, deleteReqs, lastEditOpened, receiptLog,
                  members, attendance, loadAnswers, other, otherReqs >>

\* POST /memberships is rejected, or fails on the way
SrvMembershipReject ==
  /\ \E i \in Pending(membershipReqs), msg \in BackendMessages :
        membershipReqs' = [membershipReqs EXCEPT ![i] = Answered(@, "err", msg)]
  /\ toast' = <<>>
  /\ UNCHANGED << view, userMemberId, formData, showPaymentModal,
                  showCreateModal, showReceiptModal, selectedReceipt,
                  isProcessing, isCreating, createReqs, receiptReqs,
                  paymentsFetches, statusFetches, payments, srvPayments,
                  created, createFormData, membershipsFetches, lastWritten,
                  paymentsLoaded, statusFilter, now, isLoading, loadReqs,
                  srvMemberships, membershipStatus, serverDate, issued,
                  registerData, loginData, authReqs, storage, location,
                  navigations, memberships, showEditModal, showDeleteModal,
                  selectedMembership, editFormData, isUpdating, isDeleting,
                  updateReqs, deleteReqs, lastEditOpened, receiptLog,
                  members, attendance, loadAnswers, other, otherReqs >>

\* the receipt of a payment is produced
SrvReceiptOk ==
  /\ \E i \in Pending(receiptReqs) :
        receiptReqs' = [receiptReqs EXCEPT ![i] = Answered(@, "ok", "")]
  /\ toast' = <<>>
  /\ UNCHANGED << view, userMemberId, formData, showPaymentModal,
                  showCreateModal, showReceiptModal, selectedReceipt,
                  isProcessing, isCreating, createReqs, paymentsFetches,
                  statusFetches, payments, srvPayments, created,
                  createFormData, membershipReqs, membershipsFetches,
                  lastWritten, paymentsLoaded, statusFilter, now, isLoading,
                  loadReqs, srvMemberships, membershipStatus, serverDate,
                  issued, registerData, loginData, authReqs, storage,
                  location, navigations, memberships, showEditModal,
                  showDeleteModal, selectedMembership, editFormData,
                  isUpdating, isDeleting, updateReqs, deleteReqs,
                  lastEditOpened, receiptLog, members, attendance,
                  loadAnswers, other, otherReqs >>

\* the receipt request is rejected, or fails on the way
SrvReceiptFail ==
  /\ \E i \in Pending(receiptReqs), msg \in BackendMessages :
        receiptReqs' = [receiptReqs EXCEPT ![i] = Answered(@, "err", msg)]
  /\ toast' = <<>>
  /\ UNCHANGED << view, userMemberId, formData, showPaymentModal,
                  showCreateModal, showReceiptModal, selectedReceipt,
                  isProcessing, isCreating, createReqs, paymentsFetches,
                  statusFetches, payments, srvPayments, created,
                  createFormData, membershipReqs, membershipsFetches,
                  lastWritten, paymentsLoaded, statusFilter, now, isLoading,
                  loadReqs, srvMemberships, membershipStatus, serverDate,
                  issued, registerData, loginData, authReqs, storage,
                  location, navigations, memberships, showEditModal,
                  showDeleteModal, selectedMembership, editFormData,
                  isUpdating, isDeleting, updateReqs, deleteReqs,
                  lastEditOpened, receiptLog, members, attendance,
                  loadAnswers, other, otherReqs >>

(* ============================ shared pieces ============================ *)
CloseReceiptModal ==
  /\ showReceiptModal
  /\ showReceiptModal' = FALSE
  /\ toast' = <<>>
  /\ UNCHANGED << view, userMemberId, formData, showPaymentModal,
                  showCreateModal, selectedReceipt, isProcessing, isCreating,
                  createReqs, receiptReqs, paymentsFetches, statusFetches,
                  payments, srvPayments, created, createFormData,
                  membershipReqs, membershipsFetches, lastWritten,
                  paymentsLoaded, statusFilter, now, isLoading, loadReqs,
                  srvMemberships, membershipStatus, serverDate, issued,
                  registerData, loginData, authReqs, storage, location,
                  navigations, memberships, showEditModal, showDeleteModal,
                  selectedMembership, editFormData, isUpdating, isDeleting,
                  updateReqs, deleteReqs, lastEditOpened, receiptLog,
                  members, attendance, loadAnswers, other, otherReqs >>

\* a payment-list refetch (useApi) answers with the backend's list
PaymentsFetchResolved ==
  /\ paymentsFetches > 0
  /\ paymentsFetches' = paymentsFetches - 1
  /\ payments' = srvPayments
  /\ paymentsLoaded' = TRUE
  /\ toast' = <<>>
  /\ UNCHANGED << view, userMemberId, formData, showPaymentModal,
                  showCreateModal, showReceiptModal, selectedReceipt,
                  isProcessing, isCreating, createReqs, receiptReqs,
                  statusFetches, srvPayments, created, createFormData,
                  membershipReqs, membershipsFetches, lastWritten,
                  statusFilter, now, isLoading, loadReqs, srvMemberships,
                  membershipStatus, serverDate, issued, registerData,
                  loginData, authReqs, storage, location, navigations,
                  memberships, showEditModal, showDeleteModal,
                  selectedMembership, editFormData, isUpdating, isDeleting,
                  updateReqs, deleteReqs, lastEditOpened, receiptLog,
                  members, attendance, loadAnswers, other, otherReqs >>

\* a membership-list refetch (useApi) answers
MembershipsFetchResolved ==
  /\ membershipsFetches > 0
  /\ membershipsFetches' = membershipsFetches - 1
  /\ memberships' = srvMemberships
  /\ toast' = <<>>
  /\ UNCHANGED << view, userMemberId, formData, showPaymentModal,
                  showCreateModal, showReceiptModal, selectedReceipt,
                  isProcessing, isCreating, createReqs, receiptReqs,
                  paymentsFetches, statusFetches, payments, srvPayments,
                  created, createFormData, membershipReqs, lastWritten,
                  paymentsLoaded, statusFilter, now, isLoading, loadReqs,
                  srvMemberships, membershipStatus, serverDate, issued,
                  registerData, loginData, authReqs, storage, location,
                  navigations, showEditModal, showDeleteModal,
                  selectedMembership, editFormData, isUpdating, isDeleting,
                  updateReqs, deleteReqs, lastEditOpened, receiptLog,
                  members, attendance, loadAnswers, other, otherReqs >>

\* a membership-status refetch (useApi) answers
StatusFetchResolved ==
  /\ statusFetches > 0
  /\ statusFetches' = statusFetches - 1
  /\ membershipStatus' \in resolveStatus(userMemberId, srvMemberships)
  /\ toast' = <<>>
  /\ UNCHANGED << view, userMemberId, formData, showPaymentModal,
                  showCreateModal, showReceiptModal, selectedReceipt,
                  isProcessing, isCreating, createReqs, receiptReqs,
                  paymentsFetches, payments, srvPayments, created,
                  createFormData, membershipReqs, membershipsFetches,
                  lastWritten, paymentsLoaded, statusFilter, now, isLoading,
                  loadReqs, srvMemberships, serverDate, issued, registerData,
                  loginData, authReqs, storage, location, navigations,
                  memberships, showEditModal, showDeleteModal,
                  selectedMembership, editFormData, isUpdating, isDeleting,
                  updateReqs, deleteReqs, lastEditOpened, receiptLog,
                  members, attendance, loadAnswers, other, otherReqs >>

(* ============================= statistics ============================== *)
\* A value of the wire that is a string, e.g. a decimal the backend sends
\* as "50000".
JsString(s) == [text |-> s]
IsJsString(x) == "text" \in DOMAIN x

\* Number(x): a number is itself; "" is 0; a digit string is its value;
\* any other string is NaN.
Number(x) ==
  IF ~IsJsString(x) THEN x
  ELSE IF x.text = <<>> THEN Num(0)
  ELSE IF DigitPrefix(x.text) = x.text THEN Num(DigitsValue(x.text))
  ELSE NaN

\* a + b on numbers
JsAdd(a, b) == IF a.nan \/ b.nan THEN NaN ELSE Num(a.v + b.v)
\* a || b on numbers
JsOr(a, b) == IF JsTruthy(a) THEN a ELSE b
\* a === b on numbers: never true for NaN
JsStrictEq(a, b) == ~a.nan /\ ~b.nan /\ a.v = b.v

\* the amounts, statuses and dates of the payments the backend lists
WireAmounts == {Num(50000), JsString(<<"5">>)}
PaymentStatuses == {"completed", "pending"}
NoDate == [year |-> 0, month |-> 0]
WireDates ==
  {[year |-> 2024, month |-> 1], [year |-> 2023, month |-> 1],
   [year |-> 2024, month |-> 2], NoDate}
Nows == {[year |-> 2024, month |-> 1], [year |-> 2023, month |-> 2]}
ListedPayments ==
  [amount : WireAmounts, status : PaymentStatuses, date : WireDates]
PaymentLists == UNION {[1..n -> ListedPayments] : n \in 0..MaxListLen}

\* new Date(text): the calendar fields of the text, Invalid Date without one
NewDate(d) ==
  IF d = NoDate THEN [valid |-> FALSE, year |-> 0, month |-> 0]
  ELSE [valid |-> TRUE, year |-> d.year, month |-> d.month]
\* Date.getMonth(): 0-based, NaN for Invalid Date
getMonth(date) == IF date.valid THEN Num(date.month - 1) ELSE NaN
getFullYear(date) == IF date.valid THEN Num(date.year) ELSE NaN

\* payments.reduce((sum, p) => sum + Number(p.amount), 0)
RECURSIVE reduceAmounts(_)
reduceAmounts(list) ==
  IF list = <<>> THEN Num(0)
  ELSE JsAdd(reduceAmounts(SubSeq(list, 1, Len(list) - 1)),
             Number(list[Len(list)].amount))

\* payments.filter(pred) keeps the list order: SelectSeq
getFilteredPayments(loaded, list, flt) ==
  IF ~loaded THEN <<>>
  ELSE IF flt = "all" THEN list
  ELSE LET keep(p) == p.status = flt IN SelectSeq(list, keep)

totalRevenue_filtered(loaded, list, flt) ==
  JsOr(reduceAmounts(getFilteredPayments(loaded, list, flt)), Num(0))

\* payments?.reduce(...) || 0 : undefined data gives 0
totalRevenue(loaded, list, flt) ==
  IF ~loaded THEN Num(0) ELSE JsOr(reduceAmounts(list), Num(0))

totalPaid(loaded, list) ==
  IF ~loaded THEN Num(0) ELSE JsOr(reduceAmounts(list), Num(0))

isThisMonth_monthOnly(p, today) ==
  JsStrictEq(getMonth(NewDate(p.date)), getMonth(NewDate(today)))

\* date.getMonth() === now.getMonth() && date.getFullYear() === now.getFullYear()
isThisMonth(p, today) ==
  /\ JsStrictEq(getMonth(NewDate(p.date)), getMonth(NewDate(today)))
  /\ JsStrictEq(getFullYear(NewDate(p.date)), getFullYear(NewDate(today)))

\* MemberPayment: payments?.filter(...) || []
thisMonthPayments(loaded, list, today) ==
  IF ~loaded THEN <<>>
  ELSE LET keep(p) == isThisMonth(p, today) IN SelectSeq(list, keep)

\* AdminDashboard: payments.filter(...).reduce(...)
thisMonthRevenue(list, today) ==
  LET keep(p) == isThisMonth(p, today) IN reduceAmounts(SelectSeq(list, keep))

StatsViews == {"MemberPayment", "PaymentsManagement", "AdminDashboard"}
StatusFilters == {"all", "completed", "pending", "failed"}

\* a page of the statistics right after mount: its list is being fetched
\* (on the dashboard the three other fetches of loadData have answered)
InitStats ==
  /\ AuthIdle
  /\ members = <<>>
  /\ attendance = <<>>
  /\ view \in StatsViews
  /\ userMemberId = 0
  /\ FormsIdle
  /\ srvPayments \in PaymentLists
  /\ payments = <<>>
  /\ statusFilter = "all"
  /\ now \in Nows
  /\ paymentsLoaded = (view = "AdminDashboard")
  /\ paymentsFetches = IF view = "AdminDashboard" THEN 0 ELSE 1
  /\ isLoading = (view = "AdminDashboard")
  /\ loadReqs = IF view = "AdminDashboard" THEN 1 ELSE 0
  /\ LedgerIdle
  /\ loadAnswers = IF view = "AdminDashboard"
                   THEN [a \in LoadApis |->
                           IF a = "paymentsApi.getAll" THEN "none" ELSE "ok"]
                   ELSE NoAnswers
  /\ issued = IF view = "AdminDashboard" THEN LoadApis
              ELSE IF view = "PaymentsManagement"
              THEN {"paymentsApi.getAll", "membersApi.getAll"}
              ELSE {"paymentsApi.myPayments", "membershipsApi.getStatus"}

\* PaymentsManagement: a click on a filter button
setStatusFilter ==
  /\ view = "PaymentsManagement"
  /\ \E f \in StatusFilters :
       /\ f # statusFilter
       /\ statusFilter' = f
  /\ toast' = <<>>
  /\ UNCHANGED << view, userMemberId, formData, showPaymentModal,
                  showCreateModal, showReceiptModal, selectedReceipt,
                  isProcessing, isCreating, createReqs, receiptReqs,
                  paymentsFetches, statusFetches, payments, srvPayments,
                  created, createFormData, membershipReqs,
                  membershipsFetches, lastWritten, paymentsLoaded, now,
                  isLoading, loadReqs, srvMemberships, membershipStatus,
                  serverDate, issued, registerData, loginData, authReqs,
                  storage, location, navigations, memberships, showEditModal,
                  showDeleteModal, selectedMembership, editFormData,
                  isUpdating, isDeleting, updateReqs, deleteReqs,
                  lastEditOpened, receiptLog, members, attendance,
                  loadAnswers, other, otherReqs >>

\* the members and the attendance records the backend lists
SrvMembers == << [id |-> 1, name |-> "member 1"] >>
SrvAttendance == << [id |-> 1, member_id |-> 1] >>

\* one of the four fetches of loadData is answered or fails; answers that
\* arrive after Promise.all has settled are not followed
SrvLoadAnswer ==
  /\ view = "AdminDashboard"
  /\ loadReqs > 0
  /\ \E a \in LoadApis, resp \in {"ok", "err"} :
        /\ loadAnswers[a] = "none"
        /\ loadAnswers' = [loadAnswers EXCEPT ![a] = resp]
  /\ toast' = <<>>
  /\ UNCHANGED << view, userMemberId, formData, showPaymentModal,
                  showCreateModal, showReceiptModal, selectedReceipt,
                  isProcessing, isCreating, createReqs, receiptReqs,
                  paymentsFetches, statusFetches, payments, srvPayments,
                  created, createFormData, membershipReqs,
                  membershipsFetches, lastWritten, paymentsLoaded,
                  statusFilter, now, isLoading, loadReqs, srvMemberships,
                  membershipStatus, serverDate, issued, registerData,
                  loginData, authReqs, storage, location, navigations,
                  memberships, showEditModal, showDeleteModal,
                  selectedMembership, editFormData, isUpdating, isDeleting,
                  updateReqs, deleteReqs, lastEditOpened, receiptLog,
                  members, attendance, other, otherReqs >>

\* Promise.all: fulfilled when every promise is, rejected with the first
\* rejection
PromiseAllFulfilled(answers) == \A a \in DOMAIN answers : answers[a] = "ok"
PromiseAllRejected(answers) == \E a \in DOMAIN answers : answers[a] = "err"

loadDataResolved_partial ==
  /\ view = "AdminDashboard"
  /\ loadReqs > 0
  /\ \A a \in LoadApis : loadAnswers[a] # "none"
  /\ loadReqs' = loadReqs - 1
  /\ members' = IF loadAnswers["membersApi.getAll"] = "ok"
                THEN SrvMembers ELSE members
  /\ attendance' = IF loadAnswers["attendanceApi.getAll"] = "ok"
                   THEN SrvAttendance ELSE attendance
  /\ payments' = IF loadAnswers["paymentsApi.getAll"] = "ok"
                 THEN srvPayments ELSE payments
  /\ memberships' = IF loadAnswers["membershipsApi.getAll"] = "ok"
                    THEN srvMemberships ELSE memberships
  /\ isLoading' = FALSE
  /\ toast' = <<>>
  /\ UNCHANGED << view, userMemberId, formData, showPaymentModal,
                  showCreateModal, showReceiptModal, selectedReceipt,
                  isProcessing, isCreating, createReqs, receiptReqs,
                  paymentsFetches, statusFetches, srvPayments, created,
                  createFormData, membershipReqs, membershipsFetches,
                  lastWritten, paymentsLoaded, statusFilter, now,
                  srvMemberships, membershipStatus, serverDate, issued,
                  registerData, loginData, authReqs, storage, location,
                  navigations, showEditModal, showDeleteModal,
                  selectedMembership, editFormData, isUpdating, isDeleting,
                  updateReqs, deleteReqs, lastEditOpened, receiptLog,
                  loadAnswers, other, otherReqs >>

\* AdminDashboard.loadData after the awaited Promise.all resolved
loadDataResolved ==
  /\ view = "AdminDashboard"
  /\ loadReqs > 0
  /\ PromiseAllFulfilled(loadAnswers)
  /\ loadReqs' = loadReqs - 1
  /\ members' = SrvMembers
  /\ attendance' = SrvAttendance
  /\ payments' = srvPayments
  /\ memberships' = srvMemberships
  /\ isLoading' = FALSE
  /\ toast' = <<>>
  /\ UNCHANGED << view, userMemberId, formData, showPaymentModal,
                  showCreateModal, showReceiptModal, selectedReceipt,
                  isProcessing, isCreating, createReqs, receiptReqs,
                  paymentsFetches, statusFetches, srvPayments, created,
                  createFormData, membershipReqs, membershipsFetches,
                  lastWritten, paymentsLoaded, statusFilter, now,
                  srvMemberships, membershipStatus, serverDate, issued,
                  registerData, loginData, authReqs, storage, location,
                  navigations, showEditModal, showDeleteModal,
                  selectedMembership, editFormData, isUpdating, isDeleting,
                  updateReqs, deleteReqs, lastEditOpened, receiptLog,
                  loadAnswers, other, otherReqs >>

\* AdminDashboard.loadData: catch (console.error) and finally
loadDataRejected ==
  /\ view = "AdminDashboard"
  /\ loadReqs > 0
  /\ PromiseAllRejected(loadAnswers)
  /\ loadReqs' = loadReqs - 1
  /\ isLoading' = FALSE
  /\ toast' = <<>>
  /\ UNCHANGED << view, userMemberId, formData, showPaymentModal,
                  showCreateModal, showReceiptModal, selectedReceipt,
                  isProcessing, isCreating, createReqs, receiptReqs,
                  paymentsFetches, statusFetches, payments, srvPayments,
                  created, createFormData, membershipReqs,
                  membershipsFetches, lastWritten, paymentsLoaded,
                  statusFilter, now, srvMemberships, membershipStatus,
                  serverDate, issued, registerData, loginData, authReqs,
                  storage, location, navigations, memberships, showEditModal,
                  showDeleteModal, selectedMembership, editFormData,
                  isUpdating, isDeleting, updateReqs, deleteReqs,
                  lastEditOpened, receiptLog, members, attendance,
                  loadAnswers, other, otherReqs >>

\* memberships.filter(m => m.status === 'active').length
activeMemberships_notEnded(list) ==
  Len(SelectSeq(list, LAMBDA m : m.status = "active"
                                   /\ m.end_date.year >= serverDate.year))
activeMemberships(list) ==
  Len(SelectSeq(list, LAMBDA m : m.status = "active"))

\* MembershipsManagement: activeCount and expiredCount ( ... || 0 )
activeCount(list) == Len(SelectSeq(list, LAMBDA m : m.status = "active"))
expiredCount(list) == Len(SelectSeq(list, LAMBDA m : m.status = "expired"))

(* ========================= membership status =========================== *)
MembershipStatuses == {"active", "expired", "cancelled"}

\* the memberships the backend lists for the status banner
\* (the server date is 2024-01-01: one end date is past, one is ahead)
StatusEndDates == {Date(2023, 12, 1), Date(2024, 12, 31)}
StatusMemberships ==
  [member_id : MemberIds \cup {MaxMemberId + 1}, status : MembershipStatuses,
   type : {"Monthly", "Annual"}, end_date : StatusEndDates]
StatusMembershipLists ==
  UNION {[1..n -> StatusMemberships] : n \in 0..MaxListLen}
WithIds(list) ==
  [i \in DOMAIN list |->
     [id |-> i, member_id |-> list[i].member_id, type |-> list[i].type,
      status |-> list[i].status, end_date |-> list[i].end_date]]

bannerActive_checksEndDate ==
  IF membershipStatus = Null THEN FALSE
  ELSE /\ membershipStatus.has_active_membership
       /\ membershipStatus.active_membership.end_date.year >= serverDate.year

\* MemberPayment status banner: membershipStatus?.has_active_membership
bannerActive ==
  IF membershipStatus = Null THEN FALSE
  ELSE membershipStatus.has_active_membership

\* the heading of the banner, and the line below it
bannerTitle ==
  IF bannerActive THEN "ACTIVE MEMBERSHIP" ELSE "MEMBERSHIP EXPIRED"
bannerText ==
  IF bannerActive
  THEN [plan |-> membershipStatus.active_membership.type,
        validUntil |-> membershipStatus.active_membership.end_date]
  ELSE [plan |-> "", validUntil |-> Null]

\* MemberPayment right after mount: the status is being fetched
InitStatus ==
  /\ StatsIdle
  /\ AuthIdle
  /\ view = "MemberPayment"
  /\ userMemberId \in MemberIds
  /\ FormsIdle
  /\ paymentsFetches = 0
  /\ srvPayments = <<>>
  /\ payments = <<>>
  /\ serverDate = Date(2024, 1, 1)
  /\ \E l \in StatusMembershipLists : srvMemberships = WithIds(l)
  /\ memberships = <<>>
  /\ membershipStatus = Null
  /\ issued = {}

\* the page asks for the status: at mount, and again by refetchStatus
StatusFetchIssued ==
  /\ view = "MemberPayment"
  /\ statusFetches = 0
  /\ membershipStatus = Null
  /\ statusFetches' = 1
  /\ Calls({"membershipsApi.getStatus"})
  /\ toast' = <<>>
  /\ UNCHANGED << view, userMemberId, formData, showPaymentModal,
                  showCreateModal, showReceiptModal, selectedReceipt,
                  isProcessing, isCreating, createReqs, receiptReqs,
                  paymentsFetches, payments, srvPayments, created,
                  createFormData, membershipReqs, membershipsFetches,
                  lastWritten, paymentsLoaded, statusFilter, now, isLoading,
                  loadReqs, srvMemberships, membershipStatus, serverDate,
                  registerData, loginData, authReqs, storage, location,
                  navigations, memberships, showEditModal, showDeleteModal,
                  selectedMembership, editFormData, isUpdating, isDeleting,
                  updateReqs, deleteReqs, lastEditOpened, receiptLog,
                  members, attendance, loadAnswers, other, otherReqs >>

\* the status request fails: useApi keeps its data undefined
StatusFetchRejected ==
  /\ view = "MemberPayment"
  /\ statusFetches > 0
  /\ statusFetches' = statusFetches - 1
  /\ toast' = <<>>
  /\ UNCHANGED << view, userMemberId, formData, showPaymentModal,
                  showCreateModal, showReceiptModal, selectedReceipt,
                  isProcessing, isCreating, createReqs, receiptReqs,
                  paymentsFetches, payments, srvPayments, created,
                  createFormData, membershipReqs, membershipsFetches,
                  lastWritten, paymentsLoaded, statusFilter, now, isLoading,
                  loadReqs, srvMemberships, membershipStatus, serverDate,
                  issued, registerData, loginData, authReqs, storage,
                  location, navigations, memberships, showEditModal,
                  showDeleteModal, selectedMembership, editFormData,
                  isUpdating, isDeleting, updateReqs, deleteReqs,
                  lastEditOpened, receiptLog, members, attendance,
                  loadAnswers, other, otherReqs >>

(* ========================== membership ledger ========================== *)
\* the dates on which the backend receives a create request
ServerDates == {Date(2024, 1, 1), Date(2023, 12, 31), Date(2024, 2, 28)}

\* MembershipsManagement as constructed, on any of the server dates
InitLedger ==
  /\ StatsIdle
  /\ AuthIdle
  /\ view = "MembershipsManagement"
  /\ userMemberId = 0
  /\ FormsIdle
  /\ paymentsFetches = 0
  /\ srvPayments = <<>>
  /\ payments = <<>>
  /\ serverDate \in ServerDates
  /\ srvMemberships = <<>>
  /\ memberships = <<>>
  /\ membershipStatus \in resolveStatus(userMemberId, srvMemberships)
  /\ issued = {}

(* ========================== Register and Login ========================= *)
roleOptions == {"member", "trainer", "admin"}

\* what the user types into a field: nothing, or a text the field accepts
FieldTexts == {"", "x"}
RegisterFields ==
  {"username", "email", "password", "name", "age", "gender", "phone",
   "specialization"}

\* formData.name || '' : the value of a field, '' while it is undefined
FieldValue(fd, name) == IF name \in DOMAIN fd THEN fd[name] ELSE ""

\* the inputs rendered for a role, and those of them marked required
RG_visibleFields(role) ==
  {"username", "email", "password", "name"}
    \cup (IF role = "member" THEN {"age", "gender", "phone"}
          ELSE IF role = "trainer" THEN {"specialization"} ELSE {})
RG_requiredFields(role) ==
  RG_visibleFields(role) \ (IF role = "admin" THEN {"name"} ELSE {})

RG_formValid(fd) ==
  \A name \in RG_requiredFields(fd.role) : FieldValue(fd, name) # ""

\* setFormData({...formData, [e.target.name]: e.target.value})
RG_handleChangeData(fd, name, value) ==
  [k \in DOMAIN fd \cup {name} |-> IF k = name THEN value ELSE fd[k]]

RG_roleClickData_clears(fd, role) ==
  [k \in {"username", "email", "password", "role"} |->
     IF k = "role" THEN role ELSE fd[k]]

\* setFormData({...formData, role: role.value})
RG_roleClickData(fd, role) == [fd EXCEPT !.role = role]

\* JSON.stringify(value): the text of the value
JsonStringify(value) == [json |-> value]

\* the AuthResponse of an accepted register / login request
AuthResponseOf(payload) ==
  [token |-> "token-1",
   user |-> [email |-> payload.email,
             role |-> IF "role" \in DOMAIN payload THEN payload.role
                      ELSE "member"]]

\* a session left in storage by an earlier login
OldSession ==
  setItem(setItem(NoStorage, "auth_token", "token-0"),
          "user", JsonStringify([email |-> "x", role |-> "member"]))

AuthViews == {"Register", "Login"}

\* the register or the login page as constructed, with or without a
\* session left in storage
InitAuth ==
  /\ StatsIdle
  /\ view \in AuthViews
  /\ userMemberId = 0
  /\ FormsIdle
  /\ paymentsFetches = 0
  /\ srvPayments = <<>>
  /\ payments = <<>>
  /\ LedgerIdle
  /\ issued = {}
  /\ registerData = RG_initialFormData
  /\ loginData = LG_initialData
  /\ authReqs = <<>>
  /\ storage \in {NoStorage, OldSession}
  /\ location = IF view = "Register" THEN "/register" ELSE "/login"
  /\ navigations = <<>>

\* navigate(route)
navigate(route, store) ==
  /\ location' = route
  /\ navigations' = Append(navigations, [to |-> route, storage |-> store])

\* The forms are explored while no request is in flight.
RG_Editable ==
  view = "Register" /\ location = "/register" /\ authReqs = <<>>
LG_Editable ==
  view = "Login" /\ location = "/login" /\ authReqs = <<>>

\* Register.handleChange
RG_handleChange ==
  /\ RG_Editable
  /\ \E name \in RG_visibleFields(registerData.role), value \in FieldTexts :
        /\ FieldValue(registerData, name) # value
        /\ registerData' = RG_handleChangeData(registerData, name, value)
  /\ toast' = <<>>
  /\ UNCHANGED << view, userMemberId, formData, showPaymentModal,
                  showCreateModal, showReceiptModal, selectedReceipt,
                  isProcessing, isCreating, createReqs, receiptReqs,
                  paymentsFetches, statusFetches, payments, srvPayments,
                  created, createFormData, membershipReqs,
                  membershipsFetches, lastWritten, paymentsLoaded,
                  statusFilter, now, isLoading, loadReqs, srvMemberships,
                  membershipStatus, serverDate, issued, loginData, authReqs,
                  storage, location, navigations, memberships, showEditModal,
                  showDeleteModal, selectedMembership, editFormData,
                  isUpdating, isDeleting, updateReqs, deleteReqs,
                  lastEditOpened, receiptLog, members, attendance,
                  loadAnswers, other, otherReqs >>

\* a click on a role button
RG_roleClick ==
  /\ RG_Editable
  /\ \E role \in roleOptions :
        /\ role # registerData.role
        /\ registerData' = RG_roleClickData(registerData, role)
  /\ toast' = <<>>
  /\ UNCHANGED << view, userMemberId, formData, showPaymentModal,
                  showCreateModal, showReceiptModal, selectedReceipt,
                  isProcessing, isCreating, createReqs, receiptReqs,
                  paymentsFetches, statusFetches, payments, srvPayments,
                  created, createFormData, membershipReqs,
                  membershipsFetches, lastWritten, paymentsLoaded,
                  statusFilter, now, isLoading, loadReqs, srvMemberships,
                  membershipStatus, serverDate, issued, loginData, authReqs,
                  storage, location, navigations, memberships, showEditModal,
                  showDeleteModal, selectedMembership, editFormData,
                  isUpdating, isDeleting, updateReqs, deleteReqs,
                  lastEditOpened, receiptLog, members, attendance,
                  loadAnswers, other, otherReqs >>

\* Register.handleSubmit up to its await
RG_handleSubmit ==
  /\ view = "Register" /\ location = "/register"
  /\ ~isLoading
  /\ RG_formValid(registerData)
  /\ isLoading' = TRUE
  /\ authReqs' = Append(authReqs, Request(registerData))
  /\ Calls({"authApi.register"})
  /\ toast' = <<>>
  /\ UNCHANGED << view, userMemberId, formData, showPaymentModal,
                  showCreateModal, showReceiptModal, selectedReceipt,
                  isProcessing, isCreating, createReqs, receiptReqs,
                  paymentsFetches, statusFetches, payments, srvPayments,
                  created, createFormData, membershipReqs,
                  membershipsFetches, lastWritten, paymentsLoaded,
                  statusFilter, now, loadReqs, srvMemberships,
                  membershipStatus, serverDate, registerData, loginData,
                  storage, location, navigations, memberships, showEditModal,
                  showDeleteModal, selectedMembership, editFormData,
                  isUpdating, isDeleting, updateReqs, deleteReqs,
                  lastEditOpened, receiptLog, members, attendance,
                  loadAnswers, other, otherReqs >>

RG_handleSubmitResolved_navigateFirst ==
  /\ view = "Register"
  /\ \E i \in DOMAIN authReqs :
        /\ authReqs[i].resp = "ok"
        /\ authReqs' = RemoveAt(authReqs, i)
        /\ LET response == AuthResponseOf(authReqs[i].payload)
           IN storage' =
                setItem(setItem(storage, "auth_token", response.token),
                        "user", JsonStringify(response.user))
  /\ showSuccess("Welcome to FitFlow Gym!")
  /\ navigate("/dashboard", storage)
  /\ isLoading' = FALSE
  /\ UNCHANGED << view, userMemberId, formData, showPaymentModal,
                  showCreateModal, showReceiptModal, selectedReceipt,
                  isProcessing, isCreating, createReqs, receiptReqs,
                  paymentsFetches, statusFetches, payments, srvPayments,
                  created, createFormData, membershipReqs,
                  membershipsFetches, lastWritten, paymentsLoaded,
                  statusFilter, now, loadReqs, srvMemberships,
                  membershipStatus, serverDate, issued, registerData,
                  loginData, memberships, showEditModal, showDeleteModal,
                  selectedMembership, editFormData, isUpdating, isDeleting,
                  updateReqs, deleteReqs, lastEditOpened, receiptLog,
                  members, attendance, loadAnswers, other, otherReqs >>

\* the register request succeeded: the rest of the try block, and finally
RG_handleSubmitResolved ==
  /\ view = "Register"
  /\ \E i \in DOMAIN authReqs :
        /\ authReqs[i].resp = "ok"
        /\ authReqs' = RemoveAt(authReqs, i)
        /\ LET response == AuthResponseOf(authReqs[i].payload)
           IN storage' =
                setItem(setItem(storage, "auth_token", response.token),
                        "user", JsonStringify(response.user))
  /\ showSuccess("Welcome to FitFlow Gym!")
  /\ navigate("/dashboard", storage')
  /\ isLoading' = FALSE
  /\ UNCHANGED << view, userMemberId, formData, showPaymentModal,
                  showCreateModal, showReceiptModal, selectedReceipt,
                  isProcessing, isCreating, createReqs, receiptReqs,
                  paymentsFetches, statusFetches, payments, srvPayments,
                  created, createFormData, membershipReqs,
                  membershipsFetches, lastWritten, paymentsLoaded,
                  statusFilter, now, loadReqs, srvMemberships,
                  membershipStatus, serverDate, issued, registerData,
                  loginData, memberships, showEditModal, showDeleteModal,
                  selectedMembership, editFormData, isUpdating, isDeleting,
                  updateReqs, deleteReqs, lastEditOpened, receiptLog,
                  members, attendance, loadAnswers, other, otherReqs >>

RG_handleSubmitRejected_noFinally ==
  /\ view = "Register"
  /\ \E i \in DOMAIN authReqs :
        /\ authReqs[i].resp = "err"
        /\ authReqs' = RemoveAt(authReqs, i)
        /\ showError(MessageOr(authReqs[i].message,
                               "Registration failed. Please try again."))
  /\ UNCHANGED << view, userMemberId, formData, showPaymentModal,
                  showCreateModal, showReceiptModal, selectedReceipt,
                  isProcessing, isCreating, createReqs, receiptReqs,
                  paymentsFetches, statusFetches, payments, srvPayments,
                  created, createFormData, membershipReqs,
                  membershipsFetches, lastWritten, paymentsLoaded,
                  statusFilter, now, isLoading, loadReqs, srvMemberships,
                  membershipStatus, serverDate, issued, registerData,
                  loginData, storage, location, navigations, memberships,
                  showEditModal, showDeleteModal, selectedMembership,
                  editFormData, isUpdating, isDeleting, updateReqs,
                  deleteReqs, lastEditOpened, receiptLog, members,
                  attendance, loadAnswers, other, otherReqs >>

\* the register request was rejected: catch and finally
RG_handleSubmitRejected ==
  /\ view = "Register"
  /\ \E i \in DOMAIN authReqs :
        /\ authReqs[i].resp = "err"
        /\ authReqs' = RemoveAt(authReqs, i)
        /\ showError(MessageOr(authReqs[i].message,
                               "Registration failed. Please try again."))
  /\ isLoading' = FALSE
  /\ UNCHANGED << view, userMemberId, formData, showPaymentModal,
                  showCreateModal, showReceiptModal, selectedReceipt,
                  isProcessing, isCreating, createReqs, receiptReqs,
                  paymentsFetches, statusFetches, payments, srvPayments,
                  created, createFormData, membershipReqs,
                  membershipsFetches, lastWritten, paymentsLoaded,
                  statusFilter, now, loadReqs, srvMemberships,
                  membershipStatus, serverDate, issued, registerData,
                  loginData, storage, location, navigations, memberships,
                  showEditModal, showDeleteModal, selectedMembership,
                  editFormData, isUpdating, isDeleting, updateReqs,
                  deleteReqs, lastEditOpened, receiptLog, members,
                  attendance, loadAnswers, other, otherReqs >>

\* Login: setEmail / setPassword
LG_setEmail ==
  /\ LG_Editable
  /\ \E value \in FieldTexts :
        /\ value # loginData.email
        /\ loginData' = [loginData EXCEPT !.email = value]
  /\ toast' = <<>>
  /\ UNCHANGED << view, userMemberId, formData, showPaymentModal,
                  showCreateModal, showReceiptModal, selectedReceipt,
                  isProcessing, isCreating, createReqs, receiptReqs,
                  paymentsFetches, statusFetches, payments, srvPayments,
                  created, createFormData, membershipReqs,
                  membershipsFetches, lastWritten, paymentsLoaded,
                  statusFilter, now, isLoading, loadReqs, srvMemberships,
                  membershipStatus, serverDate, issued, registerData,
                  authReqs, storage, location, navigations, memberships,
                  showEditModal, showDeleteModal, selectedMembership,
                  editFormData, isUpdating, isDeleting, updateReqs,
                  deleteReqs, lastEditOpened, receiptLog, members,
                  attendance, loadAnswers, other, otherReqs >>

LG_setPassword ==
  /\ LG_Editable
  /\ \E value \in FieldTexts :
        /\ value # loginData.password
        /\ loginData' = [loginData EXCEPT !.password = value]
  /\ toast' = <<>>
  /\ UNCHANGED << view, userMemberId, formData, showPaymentModal,
                  showCreateModal, showReceiptModal, selectedReceipt,
                  isProcessing, isCreating, createReqs, receiptReqs,
                  paymentsFetches, statusFetches, payments, srvPayments,
                  created, createFormData, membershipReqs,
                  membershipsFetches, lastWritten, paymentsLoaded,
                  statusFilter, now, isLoading, loadReqs, srvMemberships,
                  membershipStatus, serverDate, issued, registerData,
                  authReqs, storage, location, navigations, memberships,
                  showEditModal, showDeleteModal, selectedMembership,
                  editFormData, isUpdating, isDeleting, updateReqs,
                  deleteReqs, lastEditOpened, receiptLog, members,
                  attendance, loadAnswers, other, otherReqs >>

LG_formValid(data) == data.email # "" /\ data.password # ""

\* Login.handleSubmit up to its await
LG_handleSubmit ==
  /\ view = "Login" /\ location = "/login"
  /\ ~isLoading
  /\ LG_formValid(loginData)
  /\ isLoading' = TRUE
  /\ authReqs' = Append(authReqs, Request(loginData))
  /\ Calls({"authApi.login"})
  /\ toast' = <<>>
  /\ UNCHANGED << view, userMemberId, formData, showPaymentModal,
                  showCreateModal, showReceiptModal, selectedReceipt,
                  isProcessing, isCreating, createReqs, receiptReqs,
                  paymentsFetches, statusFetches, payments, srvPayments,
                  created, createFormData, membershipReqs,
                  membershipsFetches, lastWritten, paymentsLoaded,
                  statusFilter, now, loadReqs, srvMemberships,
                  membershipStatus, serverDate, registerData, loginData,
                  storage, location, navigations, memberships, showEditModal,
                  showDeleteModal, selectedMembership, editFormData,
                  isUpdating, isDeleting, updateReqs, deleteReqs,
                  lastEditOpened, receiptLog, members, attendance,
                  loadAnswers, other, otherReqs >>

\* login resolved (AuthContext.login stored the session): the rest of the
\* try block, and finally
LG_handleSubmitResolved ==
  /\ view = "Login"
  /\ \E i \in DOMAIN authReqs :
        /\ authReqs[i].resp = "ok"
        /\ authReqs' = RemoveAt(authReqs, i)
        /\ LET response == AuthResponseOf(authReqs[i].payload)
           IN storage' =
                setItem(setItem(storage, "auth_token", response.token),
                        "user", JsonStringify(response.user))
  /\ showSuccess("Welcome back!")
  /\ navigate("/dashboard", storage')
  /\ isLoading' = FALSE
  /\ UNCHANGED << view, userMemberId, formData, showPaymentModal,
                  showCreateModal, showReceiptModal, selectedReceipt,
                  isProcessing, isCreating, createReqs, receiptReqs,
                  paymentsFetches, statusFetches, payments, srvPayments,
                  created, createFormData, membershipReqs,
                  membershipsFetches, lastWritten, paymentsLoaded,
                  statusFilter, now, loadReqs, srvMemberships,
                  membershipStatus, serverDate, issued, registerData,
                  loginData, memberships, showEditModal, showDeleteModal,
                  selectedMembership, editFormData, isUpdating, isDeleting,
                  updateReqs, deleteReqs, lastEditOpened, receiptLog,
                  members, attendance, loadAnswers, other, otherReqs >>

\* login rejected: catch and finally
LG_handleSubmitRejected ==
  /\ view = "Login"
  /\ \E i \in DOMAIN authReqs :
        /\ authReqs[i].resp = "err"
        /\ authReqs' = RemoveAt(authReqs, i)
        /\ showError(MessageOr(authReqs[i].message,
                               "Invalid email or password"))
  /\ isLoading' = FALSE
  /\ UNCHANGED << view, userMemberId, formData, showPaymentModal,
                  showCreateModal, showReceiptModal, selectedReceipt,
                  isProcessing, isCreating, createReqs, receiptReqs,
                  paymentsFetches, statusFetches, payments, srvPayments,
                  created, createFormData, membershipReqs,
                  membershipsFetches, lastWritten, paymentsLoaded,
                  statusFilter, now, loadReqs, srvMemberships,
                  membershipStatus, serverDate, issued, registerData,
                  loginData, storage, location, navigations, memberships,
                  showEditModal, showDeleteModal, selectedMembership,
                  editFormData, isUpdating, isDeleting, updateReqs,
                  deleteReqs, lastEditOpened, receiptLog, members,
                  attendance, loadAnswers, other, otherReqs >>

\* POST /register or /login is accepted
SrvAuthAccept ==
  /\ \E i \in Pending(authReqs) :
        authReqs' = [authReqs EXCEPT ![i] = Answered(@, "ok", "")]
  /\ toast' = <<>>
  /\ UNCHANGED << view, userMemberId, formData, showPaymentModal,
                  showCreateModal, showReceiptModal, selectedReceipt,
                  isProcessing, isCreating, createReqs, receiptReqs,
                  paymentsFetches, statusFetches, payments, srvPayments,
                  created, createFormData, membershipReqs,
                  membershipsFetches, lastWritten, paymentsLoaded,
                  statusFilter, now, isLoading, loadReqs, srvMemberships,
                  membershipStatus, serverDate, issued, registerData,
                  loginData, storage, location, navigations, memberships,
                  showEditModal, showDeleteModal, selectedMembership,
                  editFormData, isUpdating, isDeleting, updateReqs,
                  deleteReqs, lastEditOpened, receiptLog, members,
                  attendance, loadAnswers, other, otherReqs >>

\* POST /register or /login is rejected, or fails on the way
SrvAuthReject ==
  /\ \E i \in Pending(authReqs), msg \in BackendMessages :
        authReqs' = [authReqs EXCEPT ![i] = Answered(@, "err", msg)]
  /\ toast' = <<>>
  /\ UNCHANGED << view, userMemberId, formData, showPaymentModal,
                  showCreateModal, showReceiptModal, selectedReceipt,
                  isProcessing, isCreating, createReqs, receiptReqs,
                  paymentsFetches, statusFetches, payments, srvPayments,
                  created, createFormData, membershipReqs,
                  membershipsFetches, lastWritten, paymentsLoaded,
                  statusFilter, now, isLoading, loadReqs, srvMemberships,
                  membershipStatus, serverDate, issued, registerData,
                  loginData, storage, location, navigations, memberships,
                  showEditModal, showDeleteModal, selectedMembership,
                  editFormData, isUpdating, isDeleting, updateReqs,
                  deleteReqs, lastEditOpened, receiptLog, members,
                  attendance, loadAnswers, other, otherReqs >>

(* ============ MembershipsManagement: edit and delete =================== *)
updateMembership == "membershipsApi.update"
deleteMembership == "membershipsApi.delete"

\* the memberships the backend holds when the page is opened; the backend
\* is followed up to the first change it stores
\* (they ended the day before the server date, 2024-01-01)
ListedMembership(id, status) ==
  [id |-> id, member_id |-> 1, type |-> "Monthly", duration |-> 30,
   fee |-> 50000, start_date |-> Date(2023, 12, 1),
   end_date |-> Date(2023, 12, 31), status |-> status]
MembershipLists ==
  { <<>>,
    << ListedMembership(1, "active") >>,
    << ListedMembership(1, "expired"), ListedMembership(2, "active") >>,
    << ListedMembership(1, "active"), ListedMembership(2, "cancelled") >> }

\* what the date input of the edit form can hold; ClearedDate is the ''
\* of a cleared input
ClearedDate == [text |-> ""]
EditDates == {ClearedDate, Date(2024, 6, 30)}

\* MembershipsManagement with its list loaded
InitEdit ==
  /\ StatsIdle
  /\ AuthIdle
  /\ view = "MembershipsManagement"
  /\ userMemberId = 0
  /\ FormsIdle
  /\ paymentsFetches = 0
  /\ srvPayments = <<>>
  /\ payments = <<>>
  /\ serverDate = Date(2024, 1, 1)
  /\ srvMemberships \in MembershipLists
  /\ memberships = srvMemberships
  /\ membershipStatus = Null
  /\ issued = {"membershipsApi.getAll", "membersApi.getAll"}

\* Modal, ConfirmModal (components/shared): an open modal covers the page,
\* so the buttons of the rows cannot be clicked behind it
pageCovered == showCreateModal \/ showEditModal \/ showDeleteModal

\* { ...a, ...b }
spread(a, b) ==
  [k \in DOMAIN a \cup DOMAIN b |-> IF k \in DOMAIN b THEN b[k] ELSE a[k]]

\* the argument of updateMembership: { id: selectedMembership.id, ...editFormData }
editPayload_wholeMembership(selected, fd) == spread(selected, fd)
editPayload(selected, fd) == spread([id |-> selected.id], fd)

\* the select of the edit form is required: one of its options is chosen
MM_editFormValid(fd) == fd.status # ""

\* openEditModal: setEditFormData({ status, end_date }) of the membership
editFormOf_statusOnly(membership) == [status |-> membership.status]
editFormOf(membership) ==
  [status |-> membership.status, end_date |-> membership.end_date]

openEditModal ==
  /\ view = "MembershipsManagement"
  /\ ~pageCovered
  /\ \E i \in DOMAIN memberships :
        /\ selectedMembership' = memberships[i]
        /\ editFormData' = editFormOf(memberships[i])
        /\ lastEditOpened' = memberships[i].id
  /\ showEditModal' = TRUE
  /\ toast' = <<>>
  /\ UNCHANGED << view, userMemberId, formData, showPaymentModal,
                  showCreateModal, showReceiptModal, selectedReceipt,
                  isProcessing, isCreating, createReqs, receiptReqs,
                  paymentsFetches, statusFetches, payments, srvPayments,
                  created, createFormData, membershipReqs,
                  membershipsFetches, lastWritten, paymentsLoaded,
                  statusFilter, now, isLoading, loadReqs, srvMemberships,
                  membershipStatus, serverDate, issued, registerData,
                  loginData, authReqs, storage, location, navigations,
                  memberships, showDeleteModal, isUpdating, isDeleting,
                  updateReqs, deleteReqs, receiptLog, members, attendance,
                  loadAnswers, other, otherReqs >>

openDeleteModal ==
  /\ view = "MembershipsManagement"
  /\ ~pageCovered
  /\ \E i \in DOMAIN memberships : selectedMembership' = memberships[i]
  /\ showDeleteModal' = TRUE
  /\ toast' = <<>>
  /\ UNCHANGED << view, userMemberId, formData, showPaymentModal,
                  showCreateModal, showReceiptModal, selectedReceipt,
                  isProcessing, isCreating, createReqs, receiptReqs,
                  paymentsFetches, statusFetches, payments, srvPayments,
                  created, createFormData, membershipReqs,
                  membershipsFetches, lastWritten, paymentsLoaded,
                  statusFilter, now, isLoading, loadReqs, srvMemberships,
                  membershipStatus, serverDate, issued, registerData,
                  loginData, authReqs, storage, location, navigations,
                  memberships, showEditModal, editFormData, isUpdating,
                  isDeleting, updateReqs, deleteReqs, lastEditOpened,
                  receiptLog, members, attendance, loadAnswers, other,
                  otherReqs >>

\* Modal onClose and the Cancel button of the edit form
MM_CloseEditModal ==
  /\ view = "MembershipsManagement"
  /\ showEditModal
  /\ showEditModal' = FALSE
  /\ toast' = <<>>
  /\ UNCHANGED << view, userMemberId, formData, showPaymentModal,
                  showCreateModal, showReceiptModal, selectedReceipt,
                  isProcessing, isCreating, createReqs, receiptReqs,
                  paymentsFetches, statusFetches, payments, srvPayments,
                  created, createFormData, membershipReqs,
                  membershipsFetches, lastWritten, paymentsLoaded,
                  statusFilter, now, isLoading, loadReqs, srvMemberships,
                  membershipStatus, serverDate, issued, registerData,
                  loginData, authReqs, storage, location, navigations,
                  memberships, showDeleteModal, selectedMembership,
                  editFormData, isUpdating, isDeleting, updateReqs,
                  deleteReqs, lastEditOpened, receiptLog, members,
                  attendance, loadAnswers, other, otherReqs >>

\* ConfirmModal onClose
MM_CloseDeleteModal ==
  /\ view = "MembershipsManagement"
  /\ showDeleteModal
  /\ showDeleteModal' = FALSE
  /\ toast' = <<>>
  /\ UNCHANGED << view, userMemberId, formData, showPaymentModal,
                  showCreateModal, showReceiptModal, selectedReceipt,
                  isProcessing, isCreating, createReqs, receiptReqs,
                  paymentsFetches, statusFetches, payments, srvPayments,
                  created, createFormData, membershipReqs,
                  membershipsFetches, lastWritten, paymentsLoaded,
                  statusFilter, now, isLoading, loadReqs, srvMemberships,
                  membershipStatus, serverDate, issued, registerData,
                  loginData, authReqs, storage, location, navigations,
                  memberships, showEditModal, selectedMembership,
                  editFormData, isUpdating, isDeleting, updateReqs,
                  deleteReqs, lastEditOpened, receiptLog, members,
                  attendance, loadAnswers, other, otherReqs >>

\* The edit form is explored while no request is in flight.
MM_EditEditable ==
  /\ view = "MembershipsManagement"
  /\ showEditModal
  /\ updateReqs = <<>>
  /\ deleteReqs = <<>>

\* the status select of the edit form
MM_editStatusChange ==
  /\ MM_EditEditable
  /\ \E status \in MembershipStatuses :
        /\ status # editFormData.status
        /\ editFormData' = spread(editFormData, [status |-> status])
  /\ toast' = <<>>
  /\ UNCHANGED << view, userMemberId, formData, showPaymentModal,
                  showCreateModal, showReceiptModal, selectedReceipt,
                  isProcessing, isCreating, createReqs, receiptReqs,
                  paymentsFetches, statusFetches, payments, srvPayments,
                  created, createFormData, membershipReqs,
                  membershipsFetches, lastWritten, paymentsLoaded,
                  statusFilter, now, isLoading, loadReqs, srvMemberships,
                  membershipStatus, serverDate, issued, registerData,
                  loginData, authReqs, storage, location, navigations,
                  memberships, showEditModal, showDeleteModal,
                  selectedMembership, isUpdating, isDeleting, updateReqs,
                  deleteReqs, lastEditOpened, receiptLog, members,
                  attendance, loadAnswers, other, otherReqs >>

\* the date input of the edit form
MM_editEndDateChange ==
  /\ MM_EditEditable
  /\ \E date \in EditDates :
        editFormData' = spread(editFormData, [end_date |-> date])
  /\ editFormData' # editFormData
  /\ toast' = <<>>
  /\ UNCHANGED << view, userMemberId, formData, showPaymentModal,
                  showCreateModal, showReceiptModal, selectedReceipt,
                  isProcessing, isCreating, createReqs, receiptReqs,
                  paymentsFetches, statusFetches, payments, srvPayments,
                  created, createFormData, membershipReqs,
                  membershipsFetches, lastWritten, paymentsLoaded,
                  statusFilter, now, isLoading, loadReqs, srvMemberships,
                  membershipStatus, serverDate, issued, registerData,
                  loginData, authReqs, storage, location, navigations,
                  memberships, showEditModal, showDeleteModal,
                  selectedMembership, isUpdating, isDeleting, updateReqs,
                  deleteReqs, lastEditOpened, receiptLog, members,
                  attendance, loadAnswers, other, otherReqs >>

\* Updates and deletions are explored while no refetch of the list is in
\* flight.
MM_ListSettled == membershipsFetches = 0

\* handleEditSubmit up to its await; it returns at once without a selection
handleEditSubmit ==
  /\ view = "MembershipsManagement"
  /\ showEditModal
  /\ ~isUpdating
  /\ MM_editFormValid(editFormData)
  /\ MM_ListSettled
  /\ IF selectedMembership = Null
     THEN UNCHANGED << updateReqs, isUpdating, issued >>
     ELSE /\ updateReqs' =
               Append(updateReqs,
                      Request(editPayload(selectedMembership, editFormData)))
          /\ isUpdating' = isLoadingOnMutate
          /\ Calls({updateMembership})
  /\ toast' = <<>>
  /\ UNCHANGED << view, userMemberId, formData, showPaymentModal,
                  showCreateModal, showReceiptModal, selectedReceipt,
                  isProcessing, isCreating, createReqs, receiptReqs,
                  paymentsFetches, statusFetches, payments, srvPayments,
                  created, createFormData, membershipReqs,
                  membershipsFetches, lastWritten, paymentsLoaded,
                  statusFilter, now, isLoading, loadReqs, srvMemberships,
                  membershipStatus, serverDate, registerData, loginData,
                  authReqs, storage, location, navigations, memberships,
                  showEditModal, showDeleteModal, selectedMembership,
                  editFormData, isDeleting, deleteReqs, lastEditOpened,
                  receiptLog, members, attendance, loadAnswers, other,
                  otherReqs >>

\* the update succeeded: the rest of the try block
handleEditSubmitResolved ==
  /\ view = "MembershipsManagement"
  /\ \E i \in DOMAIN updateReqs :
        /\ updateReqs[i].resp = "ok"
        /\ updateReqs' = RemoveAt(updateReqs, i)
  /\ isUpdating' = isLoadingOnSettle
  /\ showSuccess("Membership updated successfully!")
  /\ showEditModal' = FALSE
  /\ selectedMembership' = Null
  /\ membershipsFetches' = membershipsFetches + 1
  /\ Calls({"membershipsApi.getAll"})
  /\ UNCHANGED << view, userMemberId, formData, showPaymentModal,
                  showCreateModal, showReceiptModal, selectedReceipt,
                  isProcessing, isCreating, createReqs, receiptReqs,
                  paymentsFetches, statusFetches, payments, srvPayments,
                  created, createFormData, membershipReqs, lastWritten,
                  paymentsLoaded, statusFilter, now, isLoading, loadReqs,
                  srvMemberships, membershipStatus, serverDate, registerData,
                  loginData, authReqs, storage, location, navigations,
                  memberships, showDeleteModal, editFormData, isDeleting,
                  deleteReqs, lastEditOpened, receiptLog, members,
                  attendance, loadAnswers, other, otherReqs >>

handleEditSubmitRejected_retry ==
  /\ view = "MembershipsManagement"
  /\ \E i \in DOMAIN updateReqs :
        /\ updateReqs[i].resp = "err"
        /\ updateReqs' = Append(RemoveAt(updateReqs, i),
                                Request(updateReqs[i].payload))
        /\ showError(MessageOr(updateReqs[i].message,
                                "Failed to update membership"))
  /\ isUpdating' = isLoadingOnMutate
  /\ UNCHANGED << view, userMemberId, formData, showPaymentModal,
                  showCreateModal, showReceiptModal, selectedReceipt,
                  isProcessing, isCreating, createReqs, receiptReqs,
                  paymentsFetches, statusFetches, payments, srvPayments,
                  created, createFormData, membershipReqs,
                  membershipsFetches, lastWritten, paymentsLoaded,
                  statusFilter, now, isLoading, loadReqs, srvMemberships,
                  membershipStatus, serverDate, issued, registerData,
                  loginData, authReqs, storage, location, navigations,
                  memberships, showEditModal, showDeleteModal,
                  selectedMembership, editFormData, isDeleting, deleteReqs,
                  lastEditOpened, receiptLog, members, attendance,
                  loadAnswers, other, otherReqs >>

\* the update was rejected: the catch block
handleEditSubmitRejected ==
  /\ view = "MembershipsManagement"
  /\ \E i \in DOMAIN updateReqs :
        /\ updateReqs[i].resp = "err"
        /\ updateReqs' = RemoveAt(updateReqs, i)
        /\ showError(MessageOr(updateReqs[i].message,
                                "Failed to update membership"))
  /\ isUpdating' = isLoadingOnSettle
  /\ UNCHANGED << view, userMemberId, formData, showPaymentModal,
                  showCreateModal, showReceiptModal, selectedReceipt,
                  isProcessing, isCreating, createReqs, receiptReqs,
                  paymentsFetches, statusFetches, payments, srvPayments,
                  created, createFormData, membershipReqs,
                  membershipsFetches, lastWritten, paymentsLoaded,
                  statusFilter, now, isLoading, loadReqs, srvMemberships,
                  membershipStatus, serverDate, issued, registerData,
                  loginData, authReqs, storage, location, navigations,
                  memberships, showEditModal, showDeleteModal,
                  selectedMembership, editFormData, isDeleting, deleteReqs,
                  lastEditOpened, receiptLog, members, attendance,
                  loadAnswers, other, otherReqs >>

\* handleDelete up to its await (the Delete button of the ConfirmModal)
handleDelete ==
  /\ view = "MembershipsManagement"
  /\ showDeleteModal
  /\ ~isDeleting
  /\ MM_ListSettled
  /\ IF selectedMembership = Null
     THEN UNCHANGED << deleteReqs, isDeleting, issued >>
     ELSE /\ deleteReqs' = Append(deleteReqs, Request(selectedMembership.id))
          /\ isDeleting' = isLoadingOnMutate
          /\ Calls({deleteMembership})
  /\ toast' = <<>>
  /\ UNCHANGED << view, userMemberId, formData, showPaymentModal,
                  showCreateModal, showReceiptModal, selectedReceipt,
                  isProcessing, isCreating, createReqs, receiptReqs,
                  paymentsFetches, statusFetches, payments, srvPayments,
                  created, createFormData, membershipReqs,
                  membershipsFetches, lastWritten, paymentsLoaded,
                  statusFilter, now, isLoading, loadReqs, srvMemberships,
                  membershipStatus, serverDate, registerData, loginData,
                  authReqs, storage, location, navigations, memberships,
                  showEditModal, showDeleteModal, selectedMembership,
                  editFormData, isUpdating, updateReqs, lastEditOpened,
                  receiptLog, members, attendance, loadAnswers, other,
                  otherReqs >>

\* the delete succeeded: the rest of the try block
handleDeleteResolved ==
  /\ view = "MembershipsManagement"
  /\ \E i \in DOMAIN deleteReqs :
        /\ deleteReqs[i].resp = "ok"
        /\ deleteReqs' = RemoveAt(deleteReqs, i)
  /\ isDeleting' = isLoadingOnSettle
  /\ showSuccess("Membership deleted successfully")
  /\ showDeleteModal' = FALSE
  /\ selectedMembership' = Null
  /\ membershipsFetches' = membershipsFetches + 1
  /\ Calls({"membershipsApi.getAll"})
  /\ UNCHANGED << view, userMemberId, formData, showPaymentModal,
                  showCreateModal, showReceiptModal, selectedReceipt,
                  isProcessing, isCreating, createReqs, receiptReqs,
                  paymentsFetches, statusFetches, payments, srvPayments,
                  created, createFormData, membershipReqs, lastWritten,
                  paymentsLoaded, statusFilter, now, isLoading, loadReqs,
                  srvMemberships, membershipStatus, serverDate, registerData,
                  loginData, authReqs, storage, location, navigations,
                  memberships, showEditModal, editFormData, isUpdating,
                  updateReqs, lastEditOpened, receiptLog, members,
                  attendance, loadAnswers, other, otherReqs >>

handleDeleteRejected_clears ==
  /\ view = "MembershipsManagement"
  /\ \E i \in DOMAIN deleteReqs :
        /\ deleteReqs[i].resp = "err"
        /\ deleteReqs' = RemoveAt(deleteReqs, i)
        /\ showError(MessageOr(deleteReqs[i].message,
                                "Failed to delete membership"))
  /\ isDeleting' = isLoadingOnSettle
  /\ showDeleteModal' = FALSE
  /\ selectedMembership' = Null
  /\ UNCHANGED << view, userMemberId, formData, showPaymentModal,
                  showCreateModal, showReceiptModal, selectedReceipt,
                  isProcessing, isCreating, createReqs, receiptReqs,
                  paymentsFetches, statusFetches, payments, srvPayments,
                  created, createFormData, membershipReqs,
                  membershipsFetches, lastWritten, paymentsLoaded,
                  statusFilter, now, isLoading, loadReqs, srvMemberships,
                  membershipStatus, serverDate, issued, registerData,
                  loginData, authReqs, storage, location, navigations,
                  memberships, showEditModal, editFormData, isUpdating,
                  updateReqs, lastEditOpened, receiptLog, members,
                  attendance, loadAnswers, other, otherReqs >>

\* the delete was rejected: the catch block
handleDeleteRejected ==
  /\ view = "MembershipsManagement"
  /\ \E i \in DOMAIN deleteReqs :
        /\ deleteReqs[i].resp = "err"
        /\ deleteReqs' = RemoveAt(deleteReqs, i)
        /\ showError(MessageOr(deleteReqs[i].message,
                                "Failed to delete membership"))
  /\ isDeleting' = isLoadingOnSettle
  /\ UNCHANGED << view, userMemberId, formData, showPaymentModal,
                  showCreateModal, showReceiptModal, selectedReceipt,
                  isProcessing, isCreating, createReqs, receiptReqs,
                  paymentsFetches, statusFetches, payments, srvPayments,
                  created, createFormData, membershipReqs,
                  membershipsFetches, lastWritten, paymentsLoaded,
                  statusFilter, now, isLoading, loadReqs, srvMemberships,
                  membershipStatus, serverDate, issued, registerData,
                  loginData, authReqs, storage, location, navigations,
                  memberships, showEditModal, showDeleteModal,
                  selectedMembership, editFormData, isUpdating, updateReqs,
                  lastEditOpened, receiptLog, members, attendance,
                  loadAnswers, other, otherReqs >>

\* the backend applies an update to the membership it names
applyUpdate(list, payload) ==
  [i \in DOMAIN list |->
     IF list[i].id = payload.id
     THEN spread(list[i], [k \in DOMAIN payload \ {"id"} |-> payload[k]])
     ELSE list[i]]

HasId(list, id) == \E i \in DOMAIN list : list[i].id = id

\* the backend is followed up to its first stored change, and further
\* while a second session is mounted
SrvFollowed == srvMemberships \in MembershipLists \/ other.mounted

\* PUT /memberships/:id is accepted
SrvUpdateAccept ==
  /\ SrvFollowed
  /\ \E i \in Pending(updateReqs) :
        /\ HasId(srvMemberships, updateReqs[i].payload.id)
        /\ updateReqs' = [updateReqs EXCEPT ![i] = Answered(@, "ok", "")]
        /\ srvMemberships' = applyUpdate(srvMemberships, updateReqs[i].payload)
  /\ toast' = <<>>
  /\ UNCHANGED << view, userMemberId, formData, showPaymentModal,
                  showCreateModal, showReceiptModal, selectedReceipt,
                  isProcessing, isCreating, createReqs, receiptReqs,
                  paymentsFetches, statusFetches, payments, srvPayments,
                  created, createFormData, membershipReqs,
                  membershipsFetches, lastWritten, paymentsLoaded,
                  statusFilter, now, isLoading, loadReqs, membershipStatus,
                  serverDate, issued, registerData, loginData, authReqs,
                  storage, location, navigations, memberships, showEditModal,
                  showDeleteModal, selectedMembership, editFormData,
                  isUpdating, isDeleting, deleteReqs, lastEditOpened,
                  receiptLog, members, attendance, loadAnswers, other,
                  otherReqs >>

\* PUT /memberships/:id is rejected, or fails on the way
SrvUpdateReject ==
  /\ \E i \in Pending(updateReqs), msg \in BackendMessages :
        updateReqs' = [updateReqs EXCEPT ![i] = Answered(@, "err", msg)]
  /\ toast' = <<>>
  /\ UNCHANGED << view, userMemberId, formData, showPaymentModal,
                  showCreateModal, showReceiptModal, selectedReceipt,
                  isProcessing, isCreating, createReqs, receiptReqs,
                  paymentsFetches, statusFetches, payments, srvPayments,
                  created, createFormData, membershipReqs,
                  membershipsFetches, lastWritten, paymentsLoaded,
                  statusFilter, now, isLoading, loadReqs, srvMemberships,
                  membershipStatus, serverDate, issued, registerData,
                  loginData, authReqs, storage, location, navigations,
                  memberships, showEditModal, showDeleteModal,
                  selectedMembership, editFormData, isUpdating, isDeleting,
                  deleteReqs, lastEditOpened, receiptLog, members,
                  attendance, loadAnswers, other, otherReqs >>

\* DELETE /memberships/:id is accepted
SrvDeleteAccept ==
  /\ srvMemberships \in MembershipLists
  /\ \E i \in Pending(deleteReqs) :
        /\ HasId(srvMemberships, deleteReqs[i].payload)
        /\ deleteReqs' = [deleteReqs EXCEPT ![i] = Answered(@, "ok", "")]
        /\ srvMemberships' =
             SelectSeq(srvMemberships,
                       LAMBDA m : m.id # deleteReqs[i].payload)
  /\ toast' = <<>>
  /\ UNCHANGED << view, userMemberId, formData, showPaymentModal,
                  showCreateModal, showReceiptModal, selectedReceipt,
                  isProcessing, isCreating, createReqs, receiptReqs,
                  paymentsFetches, statusFetches, payments, srvPayments,
                  created, createFormData, membershipReqs,
                  membershipsFetches, lastWritten, paymentsLoaded,
                  statusFilter, now, isLoading, loadReqs, membershipStatus,
                  serverDate, issued, registerData, loginData, authReqs,
                  storage, location, navigations, memberships, showEditModal,
                  showDeleteModal, selectedMembership, editFormData,
                  isUpdating, isDeleting, updateReqs, lastEditOpened,
                  receiptLog, members, attendance, loadAnswers, other,
                  otherReqs >>

\* DELETE /memberships/:id is rejected, or fails on the way
SrvDeleteReject ==
  /\ \E i \in Pending(deleteReqs), msg \in BackendMessages :
        deleteReqs' = [deleteReqs EXCEPT ![i] = Answered(@, "err", msg)]
  /\ toast' = <<>>
  /\ UNCHANGED << view, userMemberId, formData, showPaymentModal,
                  showCreateModal, showReceiptModal, selectedReceipt,
                  isProcessing, isCreating, createReqs, receiptReqs,
                  paymentsFetches, statusFetches, payments, srvPayments,
                  created, createFormData, membershipReqs,
                  membershipsFetches, lastWritten, paymentsLoaded,
                  statusFilter, now, isLoading, loadReqs, srvMemberships,
                  membershipStatus, serverDate, issued, registerData,
                  loginData, authReqs, storage, location, navigations,
                  memberships, showEditModal, showDeleteModal,
                  selectedMembership, editFormData, isUpdating, isDeleting,
                  updateReqs, lastEditOpened, receiptLog, members,
                  attendance, loadAnswers, other, otherReqs >>

(* ------------------- the page in a second session --------------------- *)
\* openEditModal in the second session
Other_openEditModal ==
  /\ other.mounted
  /\ ~other.showEditModal
  /\ other.fetches = 0
  /\ \E i \in DOMAIN other.memberships :
        other' = [other EXCEPT
                    !.selectedMembership = other.memberships[i],
                    !.editFormData = editFormOf(other.memberships[i]),
                    !.showEditModal = TRUE,
                    !.changed = {}]
  /\ toast' = <<>>
  /\ UNCHANGED << view, userMemberId, formData, showPaymentModal,
                  showCreateModal, showReceiptModal, selectedReceipt,
                  isProcessing, isCreating, createReqs, receiptReqs,
                  paymentsFetches, statusFetches, payments, srvPayments,
                  created, createFormData, membershipReqs,
                  membershipsFetches, lastWritten, paymentsLoaded,
                  statusFilter, now, isLoading, loadReqs, srvMemberships,
                  membershipStatus, serverDate, issued, registerData,
                  loginData, authReqs, storage, location, navigations,
                  memberships, showEditModal, showDeleteModal,
                  selectedMembership, editFormData, isUpdating, isDeleting,
                  updateReqs, deleteReqs, lastEditOpened, receiptLog,
                  members, attendance, loadAnswers, otherReqs >>

Other_Editable ==
  /\ other.mounted
  /\ other.showEditModal
  /\ otherReqs = <<>>

\* the status select of the edit form, second session
Other_editStatusChange ==
  /\ Other_Editable
  /\ \E status \in MembershipStatuses :
        /\ status # other.editFormData.status
        /\ other' = [other EXCEPT
                       !.editFormData = spread(@, [status |-> status]),
                       !.changed = @ \cup {"status"}]
  /\ toast' = <<>>
  /\ UNCHANGED << view, userMemberId, formData, showPaymentModal,
                  showCreateModal, showReceiptModal, selectedReceipt,
                  isProcessing, isCreating, createReqs, receiptReqs,
                  paymentsFetches, statusFetches, payments, srvPayments,
                  created, createFormData, membershipReqs,
                  membershipsFetches, lastWritten, paymentsLoaded,
                  statusFilter, now, isLoading, loadReqs, srvMemberships,
                  membershipStatus, serverDate, issued, registerData,
                  loginData, authReqs, storage, location, navigations,
                  memberships, showEditModal, showDeleteModal,
                  selectedMembership, editFormData, isUpdating, isDeleting,
                  updateReqs, deleteReqs, lastEditOpened, receiptLog,
                  members, attendance, loadAnswers, otherReqs >>

\* the end date input of the edit form, second session
Other_editEndDateChange ==
  /\ Other_Editable
  /\ \E date \in EditDates :
        /\ spread(other.editFormData, [end_date |-> date])
             # other.editFormData
        /\ other' = [other EXCEPT
                       !.editFormData = spread(@, [end_date |-> date]),
                       !.changed = @ \cup {"end_date"}]
  /\ toast' = <<>>
  /\ UNCHANGED << view, userMemberId, formData, showPaymentModal,
                  showCreateModal, showReceiptModal, selectedReceipt,
                  isProcessing, isCreating, createReqs, receiptReqs,
                  paymentsFetches, statusFetches, payments, srvPayments,
                  created, createFormData, membershipReqs,
                  membershipsFetches, lastWritten, paymentsLoaded,
                  statusFilter, now, isLoading, loadReqs, srvMemberships,
                  membershipStatus, serverDate, issued, registerData,
                  loginData, authReqs, storage, location, navigations,
                  memberships, showEditModal, showDeleteModal,
                  selectedMembership, editFormData, isUpdating, isDeleting,
                  updateReqs, deleteReqs, lastEditOpened, receiptLog,
                  members, attendance, loadAnswers, otherReqs >>

\* handleEditSubmit up to its await, second session
Other_handleEditSubmit ==
  /\ other.mounted
  /\ other.showEditModal
  /\ ~other.isUpdating
  /\ MM_editFormValid(other.editFormData)
  /\ other.selectedMembership # Null
  /\ otherReqs' =
       Append(otherReqs,
              Request(editPayload(other.selectedMembership,
                                  other.editFormData)))
  /\ other' = [other EXCEPT !.isUpdating = isLoadingOnMutate]
  /\ toast' = <<>>
  /\ UNCHANGED << view, userMemberId, formData, showPaymentModal,
                  showCreateModal, showReceiptModal, selectedReceipt,
                  isProcessing, isCreating, createReqs, receiptReqs,
                  paymentsFetches, statusFetches, payments, srvPayments,
                  created, createFormData, membershipReqs,
                  membershipsFetches, lastWritten, paymentsLoaded,
                  statusFilter, now, isLoading, loadReqs, srvMemberships,
                  membershipStatus, serverDate, issued, registerData,
                  loginData, authReqs, storage, location, navigations,
                  memberships, showEditModal, showDeleteModal,
                  selectedMembership, editFormData, isUpdating, isDeleting,
                  updateReqs, deleteReqs, lastEditOpened, receiptLog,
                  members, attendance, loadAnswers >>

\* handleEditSubmit after its await, second session
Other_handleEditSubmitResolved ==
  /\ other.mounted
  /\ \E i \in DOMAIN otherReqs :
        /\ otherReqs[i].resp = "ok"
        /\ otherReqs' = RemoveAt(otherReqs, i)
  /\ other' = [other EXCEPT !.isUpdating = isLoadingOnSettle,
                            !.showEditModal = FALSE,
                            !.selectedMembership = Null,
                            !.fetches = @ + 1]
  /\ toast' = <<>>
  /\ UNCHANGED << view, userMemberId, formData, showPaymentModal,
                  showCreateModal, showReceiptModal, selectedReceipt,
                  isProcessing, isCreating, createReqs, receiptReqs,
                  paymentsFetches, statusFetches, payments, srvPayments,
                  created, createFormData, membershipReqs,
                  membershipsFetches, lastWritten, paymentsLoaded,
                  statusFilter, now, isLoading, loadReqs, srvMemberships,
                  membershipStatus, serverDate, issued, registerData,
                  loginData, authReqs, storage, location, navigations,
                  memberships, showEditModal, showDeleteModal,
                  selectedMembership, editFormData, isUpdating, isDeleting,
                  updateReqs, deleteReqs, lastEditOpened, receiptLog,
                  members, attendance, loadAnswers >>

\* PUT /memberships/:id of the second session is accepted
SrvOtherUpdateAccept ==
  /\ \E i \in Pending(otherReqs) :
        /\ HasId(srvMemberships, otherReqs[i].payload.id)
        /\ otherReqs' = [otherReqs EXCEPT ![i] = Answered(@, "ok", "")]
        /\ srvMemberships' = applyUpdate(srvMemberships, otherReqs[i].payload)
  /\ toast' = <<>>
  /\ UNCHANGED << view, userMemberId, formData, showPaymentModal,
                  showCreateModal, showReceiptModal, selectedReceipt,
                  isProcessing, isCreating, createReqs, receiptReqs,
                  paymentsFetches, statusFetches, payments, srvPayments,
                  created, createFormData, membershipReqs,
                  membershipsFetches, lastWritten, paymentsLoaded,
                  statusFilter, now, isLoading, loadReqs, membershipStatus,
                  serverDate, issued, registerData, loginData, authReqs,
                  storage, location, navigations, memberships, showEditModal,
                  showDeleteModal, selectedMembership, editFormData,
                  isUpdating, isDeleting, updateReqs, deleteReqs,
                  lastEditOpened, receiptLog, members, attendance,
                  loadAnswers, other >>

(* ============================ specifications =========================== *)
\* the forms and their create requests
Next ==
  \/ MP_OpenPaymentModal \/ MP_ClosePaymentModal
  \/ MP_selectPlan \/ MP_amountChange
  \/ MP_handleSubmit \/ MP_handleSubmitResolved \/ MP_handleSubmitRejected
  \/ PM_OpenCreateModal \/ PM_CloseCreateModal
  \/ PM_memberChange \/ PM_amountChange \/ PM_methodClick
  \/ PM_handleSubmit \/ PM_handleSubmitResolved \/ PM_handleSubmitRejected
  \/ MM_OpenCreateModal \/ MM_CloseCreateModal
  \/ selectMembershipType \/ MM_memberChange \/ MM_typeChange
  \/ MM_durationChange \/ MM_feeChange
  \/ handleCreateSubmit \/ handleCreateSubmitResolved
  \/ handleCreateSubmitRejected
  \/ SrvCreateAccept \/ SrvCreateReject
  \/ SrvMembershipAccept \/ SrvMembershipReject
  \/ PaymentsFetchResolved \/ StatusFetchResolved \/ MembershipsFetchResolved

Spec == Init /\ [][Next]_vars

\* the receipt flow of the two payment pages
NextReceipt ==
  \/ MP_handleViewReceipt \/ MP_handleViewReceiptResolved
  \/ MP_handleViewReceiptRejected
  \/ PM_handleGenerateReceipt \/ PM_handleGenerateReceiptResolved
  \/ PM_handleGenerateReceiptRejected
  \/ SrvReceiptOk \/ SrvReceiptFail
  \/ CloseReceiptModal

SpecReceipt == Init /\ [][NextReceipt]_vars

\* the statistics of the payment pages and of the dashboard
NextStats ==
  \/ PaymentsFetchResolved
  \/ setStatusFilter
  \/ SrvLoadAnswer \/ loadDataResolved \/ loadDataRejected

SpecStats == InitStats /\ [][NextStats]_vars

\* the creation of memberships, from the form to the backend's ledger
NextLedger ==
  \/ MM_OpenCreateModal \/ MM_CloseCreateModal
  \/ selectMembershipType \/ MM_memberChange \/ MM_typeChange
  \/ MM_durationChange \/ MM_feeChange
  \/ handleCreateSubmit \/ handleCreateSubmitResolved
  \/ handleCreateSubmitRejected
  \/ SrvMembershipAccept \/ SrvMembershipReject
  \/ MembershipsFetchResolved

SpecLedger == InitLedger /\ [][NextLedger]_vars

\* registration and login
NextAuth ==
  \/ RG_handleChange \/ RG_roleClick
  \/ RG_handleSubmit \/ RG_handleSubmitResolved \/ RG_handleSubmitRejected
  \/ LG_setEmail \/ LG_setPassword
  \/ LG_handleSubmit \/ LG_handleSubmitResolved \/ LG_handleSubmitRejected
  \/ SrvAuthAccept \/ SrvAuthReject

SpecAuth == InitAuth /\ [][NextAuth]_vars

\* the status banner of the member page
NextStatus ==
  StatusFetchIssued \/ StatusFetchResolved \/ StatusFetchRejected

SpecStatus == InitStatus /\ [][NextStatus]_vars

\* the edit and the deletion of memberships
NextEdit ==
  \/ openEditModal \/ openDeleteModal
  \/ MM_CloseEditModal \/ MM_CloseDeleteModal
  \/ MM_editStatusChange \/ MM_editEndDateChange
  \/ handleEditSubmit \/ handleEditSubmitResolved \/ handleEditSubmitRejected
  \/ handleDelete \/ handleDeleteResolved \/ handleDeleteRejected
  \/ SrvUpdateAccept \/ SrvUpdateReject
  \/ SrvDeleteAccept \/ SrvDeleteReject
  \/ MembershipsFetchResolved

SpecEdit == InitEdit /\ [][NextEdit]_vars

\* the requests of the pages and how they settle: login and registration,
\* the receipts of the payment pages, the update and the deletion of
\* memberships, the load of the dashboard
InitDashboard == InitStats /\ view = "AdminDashboard"

InitRetry ==
  \/ InitAuth
  \/ InitEdit
  \/ InitDashboard
  \/ Init /\ view \in {"MemberPayment", "PaymentsManagement"}

NextRetry ==
  \/ NextAuth
  \/ NextEdit
  \/ NextReceipt
  \/ SrvLoadAnswer \/ loadDataResolved \/ loadDataRejected

SpecRetry == InitRetry /\ [][NextRetry]_vars

\* the dashboard from its mount: the four fetches of loadData in flight
InitDashboardLoad ==
  /\ AuthIdle
  /\ view = "AdminDashboard"
  /\ userMemberId = 0
  /\ FormsIdle
  /\ members = <<>>
  /\ attendance = <<>>
  /\ payments = <<>>
  /\ memberships = <<>>
  /\ loadAnswers = NoAnswers
  /\ loadReqs = 1
  /\ isLoading = TRUE
  /\ srvPayments \in {l \in PaymentLists : Len(l) <= 1}
  /\ srvMemberships \in MembershipLists
  /\ statusFilter = "all"
  /\ now \in Nows
  /\ serverDate = Date(2024, 1, 1)
  /\ paymentsLoaded = TRUE
  /\ paymentsFetches = 0
  /\ membershipStatus = Null
  /\ issued = LoadApis

NextDashboard == SrvLoadAnswer \/ loadDataResolved \/ loadDataRejected

SpecDashboard == InitDashboardLoad /\ [][NextDashboard]_vars

\* two sessions editing the one membership the backend lists, each followed
\* through one edit, up to the refetch after its update
SessionList == << ListedMembership(1, "active") >>

InitSessions ==
  /\ StatsIdle
  /\ AuthIdle
  /\ view = "MembershipsManagement"
  /\ userMemberId = 0
  /\ FormsIdleBeside([OtherIdle EXCEPT !.mounted = TRUE,
                                       !.memberships = SessionList])
  /\ paymentsFetches = 0
  /\ srvPayments = <<>>
  /\ payments = <<>>
  /\ serverDate = Date(2024, 1, 1)
  /\ srvMemberships = SessionList
  /\ memberships = srvMemberships
  /\ membershipStatus = Null
  /\ issued = {"membershipsApi.getAll", "membersApi.getAll"}

NextSessions ==
  \/ openEditModal
  \/ MM_editStatusChange \/ MM_editEndDateChange
  \/ handleEditSubmit \/ handleEditSubmitResolved
  \/ SrvUpdateAccept
  \/ Other_openEditModal
  \/ Other_editStatusChange \/ Other_editEndDateChange
  \/ Other_handleEditSubmit \/ Other_handleEditSubmitResolved
  \/ SrvOtherUpdateAccept

SpecSessions == InitSessions /\ [][NextSessions]_vars

\* the two pages that count the active memberships
InitCounts == InitEdit \/ InitDashboardLoad

NextCounts == NextEdit \/ NextDashboard

SpecCounts == InitCounts /\ [][NextCounts]_vars

(* =============================== claims ================================ *)
ErrorToast(msg) == [kind |-> "error", text |-> msg]

\* the step that takes the answer of create-payment request i off the wire
CreateAnswerTaken(i, resp) ==
  /\ createReqs[i].resp = resp
  /\ createReqs' = RemoveAt(createReqs, i)

ReceiptAnswerTaken(i, resp) ==
  /\ receiptReqs[i].resp = resp
  /\ receiptReqs' = RemoveAt(receiptReqs, i)

\* C1: in both payment forms no create-payment request in flight carries an
\* amount that is <= 0, whatever plans were selected and amounts typed.
C1_NoNonPositiveAmountSent ==
  \A i \in DOMAIN createReqs : ~JsLeq(createReqs[i].payload.amount, Num(0))

C1_Witness ==
  /\ view = "MemberPayment"
  /\ createReqs # <<>>
  /\ createReqs[1].payload.amount = Num(membershipPlans[1].price)

\* C2: every create-payment request carries an amount that is a number
\* strictly greater than 0, also after the amount field was cleared.
C2_AmountIsPositiveNumber ==
  \A i \in DOMAIN createReqs :
     /\ ~createReqs[i].payload.amount.nan
     /\ createReqs[i].payload.amount.v > 0

\* C3: in the admin flow no create-payment request carries member_id = 0.
C3_MemberSelected ==
  view = "PaymentsManagement" =>
     \A i \in DOMAIN createReqs : createReqs[i].payload.member_id # 0

\* C4: in the self-service flow a user without a linked member sends no
\* create-payment request: submit shows 'Member information not found' and
\* leaves form, modal and payment list as they were; with a linked member
\* every request carries exactly that member's id.
C4_NoMemberNoRequest ==
  /\ [](view = "MemberPayment" =>
          /\ (userMemberId = 0 => createReqs = <<>>)
          /\ \A i \in DOMAIN createReqs :
                createReqs[i].payload.member_id = userMemberId)
  /\ [][ /\ (MP_handleSubmit /\ userMemberId = 0) =>
              toast' = <<ErrorToast("Member information not found")>>
         /\ (view = "MemberPayment" /\ userMemberId = 0
               /\ toast' # <<>>) =>
              /\ toast' = <<ErrorToast("Member information not found")>>
              /\ UNCHANGED << formData, showPaymentModal, payments,
                              createReqs, isProcessing >> ]_vars

C4_Witness ==
  /\ view = "MemberPayment"
  /\ userMemberId = 0
  /\ showPaymentModal
  /\ formData.amount = Num(membershipPlans[1].price)
  /\ toast = <<ErrorToast("Member information not found")>>

\* C5: at most one request issued by the same control is in flight at any
\* time (payment submit, membership create, and each payment's receipt
\* button).
C5_OneRequestPerControl ==
  /\ Cardinality(Pending(createReqs)) <= 1
  /\ Cardinality(Pending(membershipReqs)) <= 1
  /\ \A i, j \in Pending(receiptReqs) :
        receiptReqs[i].payload = receiptReqs[j].payload => i = j

\* C6: a rejected create-payment request commits nothing: the modal and the
\* form data stay as they are, no refetch is issued, exactly one error
\* message is shown (the backend's, or the fallback) and the submit control
\* is no longer held disabled by the request.
C6_RejectedCreateCommitsNothing ==
  [][ \A i \in DOMAIN createReqs :
        CreateAnswerTaken(i, "err") =>
          /\ UNCHANGED << formData, showPaymentModal, showCreateModal,
                          paymentsFetches, statusFetches, payments,
                          srvPayments >>
          /\ toast' = <<ErrorToast(
                 MessageOr(createReqs[i].message,
                           IF view = "MemberPayment" THEN "Payment failed"
                           ELSE "Failed to record payment"))>>
          /\ ~isProcessing' /\ ~isCreating'
          /\ Pending(createReqs') = {} ]_vars

C6_Witness ==
  /\ view = "MemberPayment"
  /\ showPaymentModal
  /\ formData.amount = Num(5)
  /\ toast = <<ErrorToast("Payment failed")>>
  /\ ~isProcessing
  /\ createReqs = <<>>

\* C7 as claimed: every successful create-payment, in the member flow and in
\* the admin flow alike, issues a membership-status refetch.
C7_StatusRefetchInBothFlows ==
  [][ \A i \in DOMAIN createReqs :
        CreateAnswerTaken(i, "ok") => statusFetches' = statusFetches + 1 ]_vars

\* C7 amended: in the member flow a successful create-payment issues one
\* membership-status refetch (and one payment-list refetch); in the admin
\* flow it issues a payment-list refetch only; a status refetch is issued by
\* no other step.
C7_StatusRefetchInMemberFlow ==
  [][ /\ \A i \in DOMAIN createReqs :
            CreateAnswerTaken(i, "ok") =>
               /\ paymentsFetches' = paymentsFetches + 1
               /\ statusFetches' =
                    statusFetches + (IF view = "MemberPayment" THEN 1 ELSE 0)
      /\ statusFetches' > statusFetches =>
            /\ view = "MemberPayment"
            /\ \E i \in DOMAIN createReqs : CreateAnswerTaken(i, "ok") ]_vars

C7_Witness ==
  /\ view = "MemberPayment"
  /\ statusFetches = 1
  /\ created = 1
  /\ createReqs = <<>>

\* C8: selecting a catalog plan sets the pre-filled fields to that plan's
\* values and nothing else (member_id, resp. method, unchanged), whatever
\* the form held before, a previously selected plan included.
C8_SelectPlanSetsPlanValues ==
  /\ [][ /\ \A i \in DOMAIN membershipPlans :
              MP_selectPlanOf(i) =>
                 formData' = [amount |-> Num(membershipPlans[i].price),
                              method |-> formData.method]
         /\ \A i \in DOMAIN membershipTypes :
              selectMembershipTypeOf(i) =>
                 createFormData' =
                    [member_id |-> createFormData.member_id,
                     type      |-> membershipTypes[i].label,
                     duration  |-> Num(membershipTypes[i].duration),
                     fee       |-> Num(membershipTypes[i].fee)] ]_vars
  /\ [](\A i, j \in DOMAIN membershipTypes :
          selectMembershipTypeData(
              selectMembershipTypeData(createFormData, membershipTypes[i]),
              membershipTypes[j])
            = [member_id |-> createFormData.member_id,
               type      |-> membershipTypes[j].label,
               duration  |-> Num(membershipTypes[j].duration),
               fee       |-> Num(membershipTypes[j].fee)])

C8_Witness ==
  /\ view = "MembershipsManagement"
  /\ createFormData = [member_id |-> 1, type |-> "Annual",
                       duration |-> Num(365), fee |-> Num(550000)]

\* C9: the payload of a create request equals, field by field, the value
\* last written to each form field before submit (plan selection, manual
\* edit or reset), with the current user's member id in the member flow.
C9_PayloadIsLastWritten ==
  [][ /\ Len(createReqs') > Len(createReqs) =>
            createReqs'[Len(createReqs')].payload =
               [member_id |-> IF view = "MemberPayment" THEN userMemberId
                              ELSE lastWritten.member_id,
                amount    |-> lastWritten.amount,
                method    |-> lastWritten.method]
      /\ Len(membershipReqs') > Len(membershipReqs) =>
            membershipReqs'[Len(membershipReqs')].payload =
               [member_id |-> lastWritten.member_id,
                type      |-> lastWritten.type,
                duration  |-> lastWritten.duration,
                fee       |-> lastWritten.fee] ]_vars

C9_Witness ==
  /\ view = "MembershipsManagement"
  /\ membershipReqs # <<>>
  /\ membershipReqs[1].payload =
        [member_id |-> 1, type |-> "Annual", duration |-> Num(365),
         fee |-> Num(5)]

\* C10: a failed receipt request shows 'Failed to generate receipt' whatever
\* the backend answered, does not open the receipt modal, leaves the stored
\* receipt as it was and sends no further request.
C10_ReceiptFailureIsGeneric ==
  [][ \A i \in DOMAIN receiptReqs :
        ReceiptAnswerTaken(i, "err") =>
          /\ toast' = <<ErrorToast("Failed to generate receipt")>>
          /\ UNCHANGED << showReceiptModal, selectedReceipt, createReqs,
                          membershipReqs, paymentsFetches, statusFetches,
                          payments >> ]_vars

C10_Witness ==
  /\ view = "PaymentsManagement"
  /\ selectedReceipt = 1
  /\ ~showReceiptModal
  /\ receiptReqs = <<>>
  /\ toast = <<ErrorToast("Failed to generate receipt")>>

\* the decimal value of a listed payment's amount
AmountValue(p) ==
  IF IsJsString(p.amount) THEN DigitsValue(p.amount.text) ELSE p.amount.v

\* the sum of the amounts of the payments at the positions I of a list
RECURSIVE SumAmountsOver(_, _)
SumAmountsOver(list, I) ==
  IF I = {} THEN 0
  ELSE LET i == CHOOSE j \in I : TRUE
       IN AmountValue(list[i]) + SumAmountsOver(list, I \ {i})

\* C11: the displayed total (admin Total Revenue, member Total Paid) is the
\* sum of the amounts of all payments of the list, each counted once,
\* whatever their status and the active status filter; it is 0 while the
\* list is not loaded and for an empty list.
C11_TotalIsSumOfAmounts ==
  LET sum == IF paymentsLoaded
             THEN SumAmountsOver(payments, DOMAIN payments) ELSE 0
  IN /\ view = "PaymentsManagement" =>
          totalRevenue(paymentsLoaded, payments, statusFilter) = Num(sum)
     /\ view = "MemberPayment" =>
          totalPaid(paymentsLoaded, payments) = Num(sum)

C11_Witness ==
  /\ view = "PaymentsManagement"
  /\ paymentsLoaded
  /\ statusFilter = "pending"
  /\ Len(payments) = 2
  /\ payments[1].status = "completed" /\ payments[2].status = "pending"
  /\ totalRevenue(paymentsLoaded, payments, statusFilter) = Num(50005)

\* a listed payment dated in the calendar month of the current date
InCurrentMonth(p) ==
  p.date # NoDate /\ p.date.year = now.year /\ p.date.month = now.month

\* C12: the "this month" aggregate holds exactly the payments dated in the
\* month and year of the current date (same month of another year and
\* another month of the same year are left out), and the dashboard's
\* monthly revenue is the sum of the amounts of exactly those payments.
C12_ThisMonthIsSameMonthAndYear ==
  /\ (view = "MemberPayment" /\ paymentsLoaded) =>
        thisMonthPayments(paymentsLoaded, payments, now)
          = SelectSeq(payments, InCurrentMonth)
  /\ (view = "AdminDashboard" /\ ~isLoading) =>
        thisMonthRevenue(payments, now)
          = Num(SumAmountsOver(payments,
                  {i \in DOMAIN payments : InCurrentMonth(payments[i])}))

C12_Witness ==
  /\ view = "AdminDashboard" /\ ~isLoading
  /\ Len(payments) = 2
  /\ InCurrentMonth(payments[1])
  /\ payments[2].date.month = now.month /\ payments[2].date.year # now.year
  /\ thisMonthRevenue(payments, now) = Num(AmountValue(payments[1]))

\* the user's memberships with status "active", by position
ActiveOf(memberId, list) ==
  {i \in DOMAIN list :
     list[i].member_id = memberId /\ list[i].status = "active"}

\* C13: with exactly one active membership the resolver answers true with
\* that entry; with none it answers false with null; in every answer
\* has_active_membership is true iff active_membership is not null.
C13_ResolverFindsActive ==
  membershipStatus # Null =>
    LET act == ActiveOf(userMemberId, srvMemberships)
    IN /\ Cardinality(act) = 1 =>
            /\ membershipStatus.has_active_membership
            /\ \E i \in act :
                 membershipStatus.active_membership = srvMemberships[i]
       /\ act = {} =>
            /\ ~membershipStatus.has_active_membership
            /\ membershipStatus.active_membership = Null
       /\ membershipStatus.has_active_membership
            <=> membershipStatus.active_membership # Null

C13_Witness ==
  /\ Len(srvMemberships) = 2
  /\ Cardinality(ActiveOf(userMemberId, srvMemberships)) = 1
  /\ srvMemberships[1].status = "expired"
  /\ srvMemberships[1].member_id = userMemberId
  /\ membershipStatus # Null
  /\ bannerActive
  /\ membershipStatus.active_membership = srvMemberships[2]

\* the number of days from 2000-01-01 to a date
DaysBeforeYear(y) ==
  365 * (y - 2000) + Cardinality({k \in 2000..(y - 1) : IsLeap(k)})
RECURSIVE DaysBeforeMonth(_, _)
DaysBeforeMonth(y, m) ==
  IF m = 1 THEN 0 ELSE DaysBeforeMonth(y, m - 1) + DaysInMonth(y, m - 1)
DayNumber(date) ==
  DaysBeforeYear(date.year) + DaysBeforeMonth(date.year, date.month)
    + date.day - 1
IsCalendarDate(date) ==
  /\ date.month \in 1..12
  /\ date.day \in 1..DaysInMonth(date.year, date.month)

\* C14: a create-membership request carries member_id, type, duration and
\* fee only, and every membership created from one has a duration >= 1 and
\* an end_date that is a calendar date exactly duration days after its
\* start_date.
C14_EndDateIsStartPlusDuration ==
  /\ \A i \in DOMAIN membershipReqs :
        DOMAIN membershipReqs[i].payload
          = {"member_id", "type", "duration", "fee"}
  /\ \A i \in DOMAIN srvMemberships :
        LET m == srvMemberships[i]
        IN /\ m.duration >= 1
           /\ IsCalendarDate(m.end_date)
           /\ DayNumber(m.end_date) - DayNumber(m.start_date) = m.duration

C14_Witness ==
  /\ Len(srvMemberships) = 1
  /\ srvMemberships[1].duration = 55
  /\ srvMemberships[1].start_date = Date(2023, 12, 31)
  /\ srvMemberships[1].end_date = Date(2024, 2, 24)

\* the scenario's membership: Annual, 365 days, 550000, from 2024-01-01
IsAnnualOf2024(m) ==
  /\ m.type = "Annual" /\ m.duration = 365 /\ m.fee = 550000
  /\ m.start_date = Date(2024, 1, 1)

\* C15 (as stated): the Annual membership of 365 days and 550000 starting on
\* 2024-01-01 ends on 2025-01-01.
C15_AnnualEndsOn20250101 ==
  \A i \in DOMAIN srvMemberships :
     IsAnnualOf2024(srvMemberships[i]) =>
        srvMemberships[i].end_date = Date(2025, 1, 1)

\* C15 (amended): the Annual membership of 365 days and 550000 starting on
\* 2024-01-01 ends on 2024-12-31, 365 days later (2024 is a leap year; one
\* calendar year later would be 2025-01-01).
C15_AnnualEndsOn20241231 ==
  \A i \in DOMAIN srvMemberships :
     IsAnnualOf2024(srvMemberships[i]) =>
        /\ srvMemberships[i].end_date = Date(2024, 12, 31)
        /\ srvMemberships[i].end_date # AddYear(srvMemberships[i].start_date)

C15_Witness ==
  /\ Len(srvMemberships) = 1
  /\ IsAnnualOf2024(srvMemberships[1])
  /\ srvMemberships[1].end_date = Date(2024, 12, 31)

\* every entry of a list is still there, unchanged, in the next state
KeptIn(list, next) ==
  /\ Len(next) >= Len(list)
  /\ \A i \in DOMAIN list : next[i] = list[i]

\* C16: a payment is immutable once created: no payment view calls an API
\* function that updates or deletes a payment, and no step (a creation
\* included) changes a payment the backend holds or the page lists.
C16_PaymentsAreImmutable ==
  /\ [](issued \cap {"paymentsApi.update", "paymentsApi.delete"} = {})
  /\ [][/\ KeptIn(srvPayments, srvPayments')
        /\ KeptIn(payments, payments')]_vars

C16_Witness ==
  /\ view = "PaymentsManagement"
  /\ created = 1
  /\ createPayment \in issued
  /\ "paymentsApi.getAll" \in issued
  /\ Len(payments) = MaxSeedPayments + 1
  /\ payments[1] = SeedPayment(1)

\* the step that takes the answer of register / login request i off the wire
AuthAnswerTaken(i, resp) ==
  /\ authReqs[i].resp = resp
  /\ authReqs' = RemoveAt(authReqs, i)

\* a storage holding exactly the session of a response
HoldsSession(store, response) ==
  /\ {"auth_token", "user"} \subseteq DOMAIN store
  /\ store["auth_token"] = response.token
  /\ store["user"] = JsonStringify(response.user)

\* C17: on the register page the session is written exactly when the
\* register request succeeds: the step that takes a successful answer
\* writes the response's token and user to storage and navigates to the
\* dashboard with both already stored; the step that takes a failure
\* leaves storage and the route unchanged; no other step writes storage
\* or navigates.
C17_SessionSetOnRegisterSuccess ==
  [][view = "Register" =>
       /\ \A i \in DOMAIN authReqs :
            AuthAnswerTaken(i, "ok") =>
              LET response == AuthResponseOf(authReqs[i].payload)
              IN /\ HoldsSession(storage', response)
                 /\ location' = "/dashboard"
                 /\ navigations' # navigations
                 /\ HoldsSession(navigations'[Len(navigations')].storage,
                                 response)
       /\ \A i \in DOMAIN authReqs :
            AuthAnswerTaken(i, "err") =>
              /\ storage' = storage
              /\ location' = location
              /\ navigations' = navigations
       /\ (storage' # storage \/ location' # location) =>
            \E i \in DOMAIN authReqs : AuthAnswerTaken(i, "ok")]_vars

C17_Witness ==
  /\ view = "Register"
  /\ location = "/dashboard"
  /\ Len(navigations) = 1
  /\ navigations[1].storage = storage
  /\ storage["auth_token"] = "token-1"
  /\ storage["user"].json.role = "trainer"

\* the update-membership request added by this step, if there is one
UpdateIssued(req) ==
  /\ Len(updateReqs') = Len(updateReqs) + 1
  /\ req = updateReqs'[Len(updateReqs')]

EditableStatuses == {"active", "expired", "cancelled"}

ReqQueues ==
  << createReqs, receiptReqs, membershipReqs, updateReqs, deleteReqs,
     authReqs >>
Unanswered(q) == Cardinality(Pending(q))
Failed(q) == Cardinality({i \in DOMAIN q : q[i].resp = "err"})
FetchCounters == << paymentsFetches, statusFetches, membershipsFetches >>

\* C18: nothing is retried automatically. A step issues at most one request,
\* and a step that issues one neither takes nor gives an answer, so it is an
\* action of the user; the step in which a handler takes a failed answer
\* issues no request and no refetch and calls no API function; the
\* dashboard's load is issued at mount only and is never issued again,
\* whether it resolved or failed.
C18_NoAutomaticRetry ==
  [][ LET Q == ReqQueues
          R == ReqQueues'
          Ops == DOMAIN Q
      IN /\ \A k \in Ops :
              Unanswered(R[k]) > Unanswered(Q[k]) =>
                /\ Len(R[k]) = Len(Q[k]) + 1
                /\ SubSeq(R[k], 1, Len(Q[k])) = Q[k]
                /\ R[k][Len(R[k])].resp = "none"
                /\ \A j \in Ops \ {k} : R[j] = Q[j]
                /\ FetchCounters' = FetchCounters
                /\ loadReqs' = loadReqs
         /\ \A k \in Ops :
              Failed(R[k]) < Failed(Q[k]) =>
                /\ Len(R[k]) = Len(Q[k]) - 1
                /\ \A j \in Ops : Unanswered(R[j]) <= Unanswered(Q[j])
                /\ FetchCounters' = FetchCounters
                /\ issued' = issued
         /\ loadReqs' <= loadReqs
         /\ loadReqs' < loadReqs =>
                /\ R = Q
                /\ FetchCounters' = FetchCounters
                /\ issued' = issued
    ]_vars

\* the update of a membership has just failed: the error is shown, no
\* update request is in flight, and the edit form is open for a new
\* submission
C18_Witness ==
  /\ view = "MembershipsManagement"
  /\ showEditModal
  /\ selectedMembership # Null
  /\ updateMembership \in issued
  /\ updateReqs = <<>>
  /\ ~isUpdating
  /\ toast = << ErrorToast("Failed to update membership") >>

\* C20: on the register and the login page the submit control is disabled
\* (isLoading) exactly while the page's request is in flight: the flag is
\* raised by the step that issues the request, which needs it lowered; it is
\* lowered only by the step that takes the request's answer, a success or a
\* failure alike; as long as the request is unanswered the flag stays
\* raised, whatever else happens.
C20_DisabledWhileInFlight ==
  /\ [](view \in AuthViews => (isLoading <=> authReqs # <<>>))
  /\ [](view \in AuthViews => Len(authReqs) <= 1)
  /\ [][ LET Raised == ~isLoading /\ isLoading'
              Lowered == isLoading /\ ~isLoading'
              Taken == \E i \in DOMAIN authReqs :
                          AuthAnswerTaken(i, "ok") \/ AuthAnswerTaken(i, "err")
          IN view \in AuthViews =>
               /\ Raised <=> (authReqs = <<>> /\ Unanswered(authReqs') = 1)
               /\ Lowered <=> Taken
               /\ (Unanswered(authReqs) = 1 /\ Unanswered(authReqs') = 1) =>
                     (isLoading /\ isLoading' /\ authReqs' = authReqs)
       ]_vars

\* a login has just failed: the error is shown, the flag is lowered and the
\* form can be submitted again
C20_Witness ==
  /\ view = "Login"
  /\ location = "/login"
  /\ "authApi.login" \in issued
  /\ authReqs = <<>>
  /\ ~isLoading
  /\ LG_formValid(loginData)
  /\ toast = << ErrorToast("Invalid email or password") >>

\* the payment form of the mounted page and its modal
PaymentModalShown ==
  IF view = "MemberPayment" THEN showPaymentModal ELSE showCreateModal
PaymentFormDefaults ==
  IF view = "MemberPayment" THEN [amount |-> Num(0), method |-> "Credit Card"]
  ELSE [member_id |-> 0, amount |-> Num(0), method |-> "Credit Card"]
CreateSucceeds == \E i \in DOMAIN createReqs : CreateAnswerTaken(i, "ok")

\* C26: on both payment pages the step that takes a successful create
\* answer closes the modal and puts the form back to amount 0, method
\* 'Credit Card' (and member_id 0 on the admin page); every other step that
\* opens or closes the modal, and every step taken while it is closed,
\* leaves the form data as it was, so a reopened modal shows what was
\* entered before.
C26_FormResetOnlyOnSuccess ==
  [][(view \in {"MemberPayment", "PaymentsManagement"}) =>
       IF CreateSucceeds
       THEN (~PaymentModalShown' /\ formData' = PaymentFormDefaults)
       ELSE ((PaymentModalShown' # PaymentModalShown \/ ~PaymentModalShown)
               => formData' = formData)
    ]_vars

\* the admin's modal was closed by Cancel with a member, an amount and a
\* method entered: nothing was created, and the form still holds them
C26_Witness ==
  /\ view = "PaymentsManagement"
  /\ ~showCreateModal
  /\ created = 0
  /\ createReqs = <<>>
  /\ formData.member_id = 1
  /\ formData.amount # Num(0)
  /\ formData.method = "Cash"

\* C27: on the member page the method of the form is 'Credit Card' in every
\* state, no step changes it, and every create-payment request carries it.
C27_MemberMethodIsCreditCard ==
  /\ [](view = "MemberPayment" =>
          /\ formData.method = "Credit Card"
          /\ \A i \in DOMAIN createReqs :
                createReqs[i].payload.method = "Credit Card")
  /\ [][(view = "MemberPayment") => formData'.method = formData.method]_vars

\* a member selected the Quarterly plan and the request for it is in flight
C27_Witness ==
  /\ view = "MemberPayment"
  /\ formData.amount = Num(135000)
  /\ \E i \in DOMAIN createReqs :
        /\ createReqs[i].resp = "none"
        /\ createReqs[i].payload.amount = Num(135000)
        /\ createReqs[i].payload.method = "Credit Card"

\* C28: every create-payment request, of either page, carries exactly
\* member_id, amount and method: no membership, plan or duration.
C28_PayloadHasNoMembership ==
  \A i \in DOMAIN createReqs :
     DOMAIN createReqs[i].payload = {"member_id", "amount", "method"}

\* the Monthly plan was selected on the member page and its payment of
\* 50000 was accepted by the backend
C28_Witness ==
  /\ view = "MemberPayment"
  /\ \E i \in DOMAIN createReqs :
        /\ createReqs[i].resp = "ok"
        /\ createReqs[i].payload =
             [member_id |-> userMemberId, amount |-> Num(50000),
              method |-> "Credit Card"]
  /\ Len(srvPayments) = MaxSeedPayments + 1

\* the fields of the register form whose value differs between two form data
ChangedFields(fd, next) ==
  {k \in DOMAIN fd \cup DOMAIN next :
     k \notin DOMAIN fd \/ k \notin DOMAIN next \/ fd[k] # next[k]}

\* C29: in the register form a step that changes the role changes no other
\* field, no step removes a field from the form data, a step changes one
\* field at most, and the request sent is the form data as it stands: so the
\* payload holds every field entered under any role, with the role selected
\* last.
C29_RoleChangeKeepsFields ==
  [][(view = "Register") =>
       /\ DOMAIN registerData \subseteq DOMAIN registerData'
       /\ Cardinality(ChangedFields(registerData, registerData')) <= 1
       /\ registerData'.role # registerData.role =>
            ChangedFields(registerData, registerData') = {"role"}
       /\ Unanswered(authReqs') > Unanswered(authReqs) =>
            authReqs'[Len(authReqs')].payload = registerData
    ]_vars

\* an admin registration in flight that still carries the age entered as a
\* member and the specialization entered as a trainer
C29_Witness ==
  /\ view = "Register"
  /\ \E i \in DOMAIN authReqs :
        /\ authReqs[i].resp = "none"
        /\ authReqs[i].payload.role = "admin"
        /\ {"age", "specialization"} \subseteq DOMAIN authReqs[i].payload
        /\ authReqs[i].payload.age = "x"
        /\ authReqs[i].payload.specialization = "x"

\* C25: once every receipt request has resolved, none of them with a
\* failure, the receipt shown is the one of the payment requested last,
\* whatever the order of the responses.
C25_LastRequestedReceiptShown ==
  (/\ view \in {"MemberPayment", "PaymentsManagement"}
   /\ receiptReqs = <<>>
   /\ receiptLog.last # 0
   /\ ~receiptLog.failed
   /\ showReceiptModal)
  => selectedReceipt = receiptLog.last

\* the step takes the answer of an update or a delete request off the wire
MutationAnswerTaken(resp) ==
  \/ \E i \in DOMAIN updateReqs :
        updateReqs[i].resp = resp /\ updateReqs' = RemoveAt(updateReqs, i)
  \/ \E i \in DOMAIN deleteReqs :
        deleteReqs[i].resp = resp /\ deleteReqs' = RemoveAt(deleteReqs, i)

\* C30: the memberships page has one selection for both flows. A step that
\* issues an update or a delete request is taken with a membership selected
\* and the request names that membership; the selection becomes null in
\* exactly the steps that take a successful update or delete answer; and
\* while nothing is selected a submit or a confirm issues no request and
\* shows no message.
C30_SharedSelection ==
  [][(view = "MembershipsManagement") =>
       /\ Unanswered(updateReqs') > Unanswered(updateReqs) =>
            /\ selectedMembership # Null
            /\ updateReqs'[Len(updateReqs')].payload.id = selectedMembership.id
       /\ Unanswered(deleteReqs') > Unanswered(deleteReqs) =>
            /\ selectedMembership # Null
            /\ deleteReqs'[Len(deleteReqs')].payload = selectedMembership.id
       /\ (selectedMembership # Null /\ selectedMembership' = Null)
            => MutationAnswerTaken("ok")
       /\ MutationAnswerTaken("ok") => selectedMembership' = Null
       /\ (selectedMembership = Null /\ ~MutationAnswerTaken("ok")
             /\ ~MutationAnswerTaken("err")) =>
            /\ Len(updateReqs') <= Len(updateReqs)
            /\ Len(deleteReqs') <= Len(deleteReqs)
            /\ toast' = <<>>
    ]_vars

\* an update succeeded while the delete modal of another row, opened in the
\* meantime, is still shown: nothing is selected, the confirm button has
\* sent no delete request and no message is shown
C30_Witness ==
  /\ view = "MembershipsManagement"
  /\ showDeleteModal
  /\ ~showEditModal
  /\ selectedMembership = Null
  /\ updateMembership \in issued
  /\ deleteMembership \notin issued
  /\ updateReqs = <<>>
  /\ deleteReqs = <<>>
  /\ toast = <<>>

\* C23: the banner of the member page is headed 'ACTIVE MEMBERSHIP' exactly
\* when a status response is loaded and its has_active_membership is true;
\* before the response, after a failed load and with a false flag it is
\* headed 'MEMBERSHIP EXPIRED'. The end date of the membership appears in
\* the text only: a membership that ended before today is still shown as
\* active when the response says so.
C23_BannerFollowsFlagOnly ==
  view = "MemberPayment" =>
    /\ bannerTitle \in {"ACTIVE MEMBERSHIP", "MEMBERSHIP EXPIRED"}
    /\ bannerTitle = "ACTIVE MEMBERSHIP" <=>
         (membershipStatus # Null /\ membershipStatus.has_active_membership)
    /\ bannerTitle = "ACTIVE MEMBERSHIP" =>
         bannerText.validUntil = membershipStatus.active_membership.end_date

\* the loaded response names an active membership that ended a month ago,
\* and the banner reads active, valid until that date
C23_Witness ==
  /\ view = "MemberPayment"
  /\ statusFetches = 0
  /\ membershipStatus # Null
  /\ membershipStatus.has_active_membership
  /\ membershipStatus.active_membership.end_date = Date(2023, 12, 1)
  /\ serverDate = Date(2024, 1, 1)
  /\ bannerTitle = "ACTIVE MEMBERSHIP"
  /\ bannerText.validUntil = Date(2023, 12, 1)

\* ---------------------------------------------------------------------
\* C24: the admin dashboard load is all-or-nothing.  The four collections
\* (members, attendance, payments, memberships) change only in the step
\* that settles loadData with all four fetches answered successfully, and
\* that step sets all four; while any one fetch has failed all four are
\* still the initial empty list, whatever the other three answered; and
\* once the combined request has settled, either way, isLoading is false.
Collections == << members, attendance, payments, memberships >>

C24_LoadAllOrNothing ==
  /\ []((view = "AdminDashboard" /\ \E a \in LoadApis : loadAnswers[a] = "err")
          => Collections = << <<>>, <<>>, <<>>, <<>> >>)
  /\ []((view = "AdminDashboard" /\ loadReqs = 0) => ~isLoading)
  /\ [][(view = "AdminDashboard") =>
          /\ (Collections' # Collections
                => /\ loadReqs' < loadReqs
                   /\ \A a \in LoadApis : loadAnswers[a] = "ok")
          /\ ((loadReqs' < loadReqs /\ \A a \in LoadApis : loadAnswers[a] = "ok")
                => Collections' = << SrvMembers, SrvAttendance,
                                     srvPayments, srvMemberships >>)
          /\ (loadReqs' < loadReqs => ~isLoading')]_vars

\* one fetch failed, the three others succeeded, and the load has settled
C24_Witness ==
  /\ view = "AdminDashboard"
  /\ loadReqs = 0
  /\ Cardinality({a \in LoadApis : loadAnswers[a] = "ok"}) = 3
  /\ Cardinality({a \in LoadApis : loadAnswers[a] = "err"}) = 1
  /\ srvMemberships # <<>>
  /\ memberships = <<>>
  /\ ~isLoading

\* ---------------------------------------------------------------------
\* C22: memberships are not expired automatically.  On the admin dashboard
\* and on the memberships page the active count is the number of listed
\* memberships whose status field is 'active', whatever their end_date and
\* the date; the page list changes only to the list the backend holds; and
\* the stored status of a membership changes only in the step in which the
\* backend accepts an update request for that membership, to the status
\* that request carries.
StatusIs(list, status) == {i \in DOMAIN list : list[i].status = status}

EndedBefore(m, today) == DayNumber(m.end_date) < DayNumber(today)

StatusOf(list, id) == {list[i].status : i \in {j \in DOMAIN list : list[j].id = id}}

C22_NoAutoExpiry ==
  /\ [](view = "AdminDashboard" =>
          activeMemberships(memberships)
            = Cardinality(StatusIs(memberships, "active")))
  /\ [](view = "MembershipsManagement" =>
          /\ activeCount(memberships)
               = Cardinality(StatusIs(memberships, "active"))
          /\ expiredCount(memberships)
               = Cardinality(StatusIs(memberships, "expired")))
  /\ [][(view \in {"AdminDashboard", "MembershipsManagement"}) =>
          /\ memberships' # memberships => memberships' = srvMemberships
          /\ \A i \in DOMAIN srvMemberships :
               LET id == srvMemberships[i].id IN
               (HasId(srvMemberships', id)
                  /\ StatusOf(srvMemberships', id) # StatusOf(srvMemberships, id))
                 => \E r \in Pending(updateReqs) :
                      /\ updateReqs'[r].resp = "ok"
                      /\ updateReqs[r].payload.id = id
                      /\ StatusOf(srvMemberships', id)
                           = {updateReqs[r].payload.status}]_vars

\* the dashboard has loaded a membership that is 'active' and ended before
\* the server date, and counts it
C22_Witness ==
  /\ view = "AdminDashboard"
  /\ ~isLoading
  /\ \E i \in DOMAIN memberships :
       /\ memberships[i].status = "active"
       /\ EndedBefore(memberships[i], serverDate)
  /\ activeMemberships(memberships) = 1

\* ---------------------------------------------------------------------
\* C21: membership edits are last-write-wins.  An update request holds
\* exactly id, status and end_date, with no version or precondition; when
\* the edit modal opens the form captures status and end_date of the
\* listed membership, and the request sent carries the form as it stands,
\* so a field the editor never changed goes out with its captured value;
\* a session with an open form, a selection and no request in flight can
\* always submit, whatever the backend holds by then; and when the backend
\* applies an update the stored status and end_date are exactly those of
\* that request, so after two sessions' requests the ones applied last.
EditedFields == {"status", "end_date"}

OtherUpdateIssued(req) ==
  /\ Len(otherReqs') = Len(otherReqs) + 1
  /\ req = otherReqs'[Len(otherReqs')]

StoredAs(list, payload) ==
  \A i \in DOMAIN list :
    list[i].id = payload.id
      => /\ list[i].status = payload.status
         /\ list[i].end_date = payload.end_date

Applied(reqs, reqsAfter) ==
  {i \in Pending(reqs) : i \in DOMAIN reqsAfter /\ reqsAfter[i].resp = "ok"}

C21_LastWriteWins ==
  /\ [](\A i \in DOMAIN updateReqs :
          DOMAIN updateReqs[i].payload = {"id"} \cup EditedFields)
  /\ [](\A i \in DOMAIN otherReqs :
          DOMAIN otherReqs[i].payload = {"id"} \cup EditedFields)
  /\ []((/\ other.showEditModal
         /\ ~other.isUpdating
         /\ other.selectedMembership # Null)
          => ENABLED Other_handleEditSubmit)
  /\ [][(view = "MembershipsManagement") =>
          /\ (showEditModal' /\ ~showEditModal)
               => \E i \in DOMAIN memberships :
                    /\ selectedMembership' = memberships[i]
                    /\ editFormData' = [k \in EditedFields |-> memberships[i][k]]
          /\ (other'.showEditModal /\ ~other.showEditModal)
               => \E i \in DOMAIN other.memberships :
                    /\ other'.selectedMembership = other.memberships[i]
                    /\ other'.editFormData
                         = [k \in EditedFields |-> other.memberships[i][k]]
          /\ \A i \in DOMAIN updateReqs' :
               UpdateIssued(updateReqs'[i])
                 => updateReqs'[i].payload
                      = [id |-> selectedMembership.id,
                         status |-> editFormData.status,
                         end_date |-> editFormData.end_date]
          /\ \A i \in DOMAIN otherReqs' :
               OtherUpdateIssued(otherReqs'[i])
                 => /\ otherReqs'[i].payload.id = other.selectedMembership.id
                    /\ \A k \in EditedFields :
                         /\ otherReqs'[i].payload[k] = other.editFormData[k]
                         /\ k \notin other.changed
                              => otherReqs'[i].payload[k]
                                   = other.selectedMembership[k]
          /\ \A i \in Applied(updateReqs, updateReqs') :
               StoredAs(srvMemberships', updateReqs[i].payload)
          /\ \A i \in Applied(otherReqs, otherReqs') :
               StoredAs(srvMemberships', otherReqs[i].payload)]_vars

\* both sessions' requests were applied: the first session had set the end
\* date to 2024-06-30, the second changed the status only, and the backend
\* holds the second session's status with the end date it had captured
C21_Witness ==
  /\ Len(updateReqs) = 1 /\ updateReqs[1].resp = "ok"
  /\ Len(otherReqs) = 1 /\ otherReqs[1].resp = "ok"
  /\ updateReqs[1].payload.end_date = Date(2024, 6, 30)
  /\ other.changed = {"status"}
  /\ srvMemberships[1].status = otherReqs[1].payload.status
  /\ srvMemberships[1].end_date = Date(2023, 12, 31)

====
